---------------------------- MODULE Spec2Model ----------------------------
(***************************************************************************)
(* Analysis Orchestration Engine of sally-imperialx.                       *)
(*                                                                         *)
(* The model follows AnalysisEngine.handleUserQuery (backend/analysis.js)  *)
(* statement by statement, together with the collaborators it drives:      *)
(* SallyBrain (planner, web search, oracles), LivePriceFetcher, the        *)
(* universal fallback pool, MemoryManager and the POST /api/chat route.    *)
(*                                                                         *)
(* Text is modelled as a sequence of one-character strings so that         *)
(* toLowerCase, toUpperCase, trim, includes and === are computed and not   *)
(* assumed.                                                                *)
(***************************************************************************)
EXTENDS Integers, Sequences, FiniteSets, TLC

(***************************************************************************)
(* JavaScript string primitives                                            *)
(***************************************************************************)
UpperLetters == <<"A","B","C","D","E","F","G","H","I","J","K","L","M","N","O","P","Q","R","S","T","U","V","W","X","Y","Z">>

LowerLetters == <<"a","b","c","d","e","f","g","h","i","j","k","l","m","n","o","p","q","r","s","t","u","v","w","x","y","z">>

LowerChar(c) ==
  IF \E i \in 1..26 : UpperLetters[i] = c
    THEN LowerLetters[CHOOSE i \in 1..26 : UpperLetters[i] = c]
    ELSE c

UpperChar(c) ==
  IF \E i \in 1..26 : LowerLetters[i] = c
    THEN UpperLetters[CHOOSE i \in 1..26 : LowerLetters[i] = c]
    ELSE c

toLowerCase(s) == [i \in 1..Len(s) |-> LowerChar(s[i])]

toUpperCase(s) == [i \in 1..Len(s) |-> UpperChar(s[i])]

IsSpace(c) == c \in {" ", "\t", "\n"}

RECURSIVE trimStart(_)
trimStart(s) ==
  IF s # <<>> /\ IsSpace(Head(s)) THEN trimStart(Tail(s)) ELSE s

RECURSIVE trimEnd(_)
trimEnd(s) ==
  IF s # <<>> /\ IsSpace(s[Len(s)]) THEN trimEnd(SubSeq(s, 1, Len(s) - 1)) ELSE s

trim(s) == trimEnd(trimStart(s))

includes(s, sub) ==
  \E i \in 0..(Len(s) - Len(sub)) : SubSeq(s, i + 1, i + Len(sub)) = sub

startsWith(s, prefix) ==
  Len(prefix) <= Len(s) /\ SubSeq(s, 1, Len(prefix)) = prefix

(***************************************************************************)
(* Text constants of the source                                            *)
(***************************************************************************)
BTCUSDT == <<"B","T","C","U","S","D","T">>

ETHUSDT == <<"E","T","H","U","S","D","T">>

SOLUSDT == <<"S","O","L","U","S","D","T">>

DOGEUSDT == <<"D","O","G","E","U","S","D","T">>

NoText == <<>>

\* casualKeywords of createDynamicDataPlan
casualKeywords ==
  << <<"h","i">>,
     <<"h","e","l","l","o">>,
     <<"t","h","a","n","k","s">>,
     <<"t","h","a","n","k"," ","y","o","u">>,
     <<"h","e","y">>,
     <<"g","o","o","d"," ","m","o","r","n","i","n","g">>,
     <<"g","o","o","d"," ","e","v","e","n","i","n","g">> >>

\* the phrasings compared by isLastQuestionQuery
lastQuestionPhrases ==
  { <<"w","h","a","t"," ","d","i","d"," ","i"," ","a","s","k"," ","j","u","s","t"," ","n","o","w">>,
    <<"w","h","a","t"," ","d","i","d"," ","i"," ","a","s","k"," ","j","u","s","t"," ","n","o","w","?">>,
    <<"w","h","a","t"," ","d","i","d"," ","i"," ","a","s","k">>,
    <<"w","h","a","t"," ","w","a","s"," ","m","y"," ","l","a","s","t"," ","q","u","e","s","t","i","o","n">>,
    <<"l","a","s","t"," ","q","u","e","s","t","i","o","n","?">>,
    <<"w","h","a","t"," ","w","a","s"," ","m","y"," ","p","r","e","v","i","o","u","s"," ","q","u","e","s","t","i","o","n">>,
    <<"m","y"," ","l","a","s","t"," ","q","u","e","s","t","i","o","n">> }

\* symbolMap of createFallbackPlan, in key insertion order
symbolMap ==
  << [key |-> <<"b","t","c">>, symbol |-> BTCUSDT],
     [key |-> <<"b","i","t","c","o","i","n">>, symbol |-> BTCUSDT],
     [key |-> <<"e","t","h">>, symbol |-> ETHUSDT],
     [key |-> <<"e","t","h","e","r","e","u","m">>, symbol |-> ETHUSDT],
     [key |-> <<"s","o","l">>, symbol |-> SOLUSDT],
     [key |-> <<"s","o","l","a","n","a">>, symbol |-> SOLUSDT] >>

\* keys of LivePriceFetcher.symbolMap, in key insertion order
livePriceKeys ==
  << <<"B","T","C">>,
     <<"B","I","T","C","O","I","N">>,
     <<"E","T","H">>,
     <<"E","T","H","E","R","E","U","M">>,
     <<"S","O","L">>,
     <<"S","O","L","A","N","A">> >>

kw_price == <<"p","r","i","c","e">>

kw_cost == <<"c","o","s","t">>

kw_analysis == <<"a","n","a","l","y","s","i","s">>

kw_technical == <<"t","e","c","h","n","i","c","a","l">>

\* Bybit data type names
dt_kline == <<"k","l","i","n","e">>

dt_tickers == <<"t","i","c","k","e","r","s">>

dt_fundingRateHistory == <<"f","u","n","d","i","n","g","R","a","t","e","H","i","s","t","o","r","y">>

dt_longShortRatio == <<"l","o","n","g","S","h","o","r","t","R","a","t","i","o">>

\* template tails used by createFallbackPlan for its web-search queries
sfx_current_price == <<" ","c","u","r","r","e","n","t"," ","p","r","i","c","e">>

sfx_technical_analysis == <<" ","t","e","c","h","n","i","c","a","l"," ","a","n","a","l","y","s","i","s">>

sfx_cryptocurrency == <<" ","c","r","y","p","t","o","c","u","r","r","e","n","c","y">>

ind_SMA20 == <<"S","M","A","2","0">>

ind_RSI14 == <<"R","S","I","1","4">>

ind_MACD == <<"M","A","C","D">>


(***************************************************************************)
(* Pure helpers of the engine and the planner                              *)
(***************************************************************************)
\* AnalysisEngine.isLastQuestionQuery: (query || '').trim().toLowerCase()
\* compared with === against the fixed phrasings
isLastQuestionQuery(query) ==
  toLowerCase(trim(query)) \in lastQuestionPhrases

\* createDynamicDataPlan: casualKeywords.some(word => lowerQuery.trim() === word
\* || lowerQuery.trim() === word + '!')
isCasualOnly(userQuery) ==
  LET lowerQuery == toLowerCase(userQuery) IN
  \E i \in 1..Len(casualKeywords) :
    \/ trim(lowerQuery) = casualKeywords[i]
    \/ trim(lowerQuery) = casualKeywords[i] \o <<"!">>

\* variant: the keys are looked up in the query as typed
detectedSymbol_CaseSensitive(userQuery) ==
  LET hits == { i \in 1..Len(symbolMap) : includes(userQuery, symbolMap[i].key) }
  IN IF hits = {} THEN BTCUSDT
     ELSE symbolMap[CHOOSE i \in hits : \A j \in hits : i <= j].symbol

\* createFallbackPlan: first key of symbolMap contained in the lowered query,
\* default BTCUSDT
detectedSymbol(userQuery) ==
  LET lowerQuery == toLowerCase(userQuery)
      hits == { i \in 1..Len(symbolMap) : includes(lowerQuery, symbolMap[i].key) }
  IN IF hits = {} THEN BTCUSDT
     ELSE symbolMap[CHOOSE i \in hits : \A j \in hits : i <= j].symbol

\* one entry of requiredData.bybit: key and params (params may be JSON null)
BybitEntry(dataType, symbol) ==
  [dataType |-> dataType, paramsNull |-> FALSE, symbol |-> symbol]

\* a response is text as well; fixed texts are kept as one token
NoResponse == <<"undefined">>

GreetingResponse == <<"Hello! I'm Sally, your dynamic crypto analysis AI.">>

OracleCasualResponse == <<"casual response written by the planning oracle">>

FinalAnalysisText == <<"final analysis written by the summarization oracle">>

NoPreviousQuestion == <<"No previous question found in this chat.">>

PreviousQuestion(lastQuestion) ==
  <<"Your previous question was: \"">> \o lastQuestion \o <<"\"">>

\* requiredData of a plan; webSearchIsArray and hasTechnicalIndicators keep the
\* JavaScript tests Array.isArray(...) and truthiness of the field
RequiredData(bybit, livePrice, webSearch, webSearchIsArray, technicalIndicators, hasTechnicalIndicators) ==
  [bybit |-> bybit, livePrice |-> livePrice, webSearch |-> webSearch,
   webSearchIsArray |-> webSearchIsArray,
   technicalIndicators |-> technicalIndicators,
   hasTechnicalIndicators |-> hasTechnicalIndicators]

\* `plan.requiredData || {}`
EmptyRequiredData == RequiredData(<<>>, FALSE, <<>>, FALSE, <<>>, FALSE)

\* SallyBrain.createFallbackPlan
createFallbackPlan(userQuery) ==
  LET lowerQuery == toLowerCase(userQuery)
      sym == detectedSymbol(userQuery)
      requiredData ==
        IF includes(lowerQuery, kw_price) \/ includes(lowerQuery, kw_cost)
          THEN RequiredData(<<BybitEntry(dt_tickers, sym)>>, TRUE,
                            <<sym \o sfx_current_price>>, TRUE, <<>>, TRUE)
        ELSE IF includes(lowerQuery, kw_analysis) \/ includes(lowerQuery, kw_technical)
          THEN RequiredData(<<BybitEntry(dt_kline, sym), BybitEntry(dt_tickers, sym)>>, FALSE,
                            <<sym \o sfx_technical_analysis>>, TRUE,
                            <<ind_SMA20, ind_RSI14, ind_MACD>>, TRUE)
        ELSE RequiredData(<<BybitEntry(dt_tickers, sym)>>, FALSE,
                          <<userQuery \o sfx_cryptocurrency>>, TRUE, <<>>, TRUE)
  IN [isCasual |-> FALSE, response |-> NoResponse,
      hasRequiredData |-> TRUE, requiredData |-> requiredData]

\* the immediate casual plan of createDynamicDataPlan
CasualShortcutPlan ==
  [isCasual |-> TRUE, response |-> GreetingResponse,
   hasRequiredData |-> FALSE, requiredData |-> EmptyRequiredData]

\* LivePriceFetcher.extractSymbolFromQuery: first key of symbolMap contained in
\* the upper-cased query (the "common variations" tests repeat the same keys);
\* NoText stands for null
extractSymbolFromQuery(query) ==
  LET upperQuery == toUpperCase(query)
      hits == { i \in 1..Len(livePriceKeys) : includes(upperQuery, livePriceKeys[i]) }
  IN IF hits = {} THEN NoText
     ELSE livePriceKeys[CHOOSE i \in hits : \A j \in hits : i <= j]


(***************************************************************************)
(* Bounds and input domains                                                *)
(***************************************************************************)
\* stored messages per chat
MaxMessages == 3

q_hi == <<"h","i">>

q_Hi_bang == <<" ","H","i","!"," ">>

q_hi_there == <<"h","i"," ","t","h","e","r","e">>

q_Bitcoin_price == <<"B","i","t","c","o","i","n"," ","p","r","i","c","e">>

q_eth_cost == <<"e","t","h"," ","c","o","s","t">>

q_SOL_technical == <<"S","O","L"," ","t","e","c","h","n","i","c","a","l">>

q_doge_news == <<"d","o","g","e"," ","n","e","w","s">>

q_What_did_I_ask == <<"W","h","a","t"," ","d","i","d"," ","I"," ","a","s","k"," ","j","u","s","t"," ","n","o","w">>

q_my_last_question == <<"m","y"," ","l","a","s","t"," ","q","u","e","s","t","i","o","n"," ">>

q_whats_ETH_price == <<"w","h","a","t","'","s"," ","E","T","H"," ","p","r","i","c","e">>

q_analyze_BTC == <<"a","n","a","l","y","z","e"," ","B","T","C">>

\* queries handed to handleUserQuery
Queries ==
  { q_hi, q_Hi_bang, q_hi_there, q_Bitcoin_price, q_SOL_technical,
    q_doge_news, q_What_did_I_ask, q_my_last_question }

dt_orderbook == <<"o","r","d","e","r","b","o","o","k">>

dt_spotTickers == <<"s","p","o","t","t","i","c","k","e","r","s">>

w_news == <<"b","t","c"," ","n","e","w","s">>

w_sentiment == <<"s","e","n","t","i","m","e","n","t">>

\* JSON objects the planning oracle may answer with
plan_casual ==
  [isCasual |-> TRUE, response |-> OracleCasualResponse,
   hasRequiredData |-> FALSE, requiredData |-> EmptyRequiredData]

\* both formats mixed: casual, yet carrying data-fetch fields
plan_casual_with_data ==
  [isCasual |-> TRUE, response |-> OracleCasualResponse,
   hasRequiredData |-> TRUE,
   requiredData |-> RequiredData(<<BybitEntry(dt_tickers, BTCUSDT)>>, TRUE,
                                 <<w_news>>, TRUE, <<ind_RSI14>>, TRUE)]

\* an object with neither isCasual nor requiredData
plan_neither ==
  [isCasual |-> FALSE, response |-> NoResponse,
   hasRequiredData |-> FALSE, requiredData |-> EmptyRequiredData]

plan_full ==
  [isCasual |-> FALSE, response |-> NoResponse,
   hasRequiredData |-> TRUE,
   requiredData |-> RequiredData(<<BybitEntry(dt_kline, BTCUSDT), BybitEntry(dt_tickers, BTCUSDT)>>,
                                 TRUE, <<w_news, w_sentiment>>, TRUE,
                                 <<ind_SMA20, ind_RSI14, ind_MACD>>, TRUE)]

\* "tickers": null
plan_null_params ==
  [isCasual |-> FALSE, response |-> NoResponse,
   hasRequiredData |-> TRUE,
   requiredData |-> RequiredData(<<[dataType |-> dt_tickers, paramsNull |-> TRUE, symbol |-> NoText]>>,
                                 FALSE, <<w_news>>, TRUE, <<>>, FALSE)]

\* other data types, an unmapped symbol, webSearch given as a string
plan_other_types ==
  [isCasual |-> FALSE, response |-> NoResponse,
   hasRequiredData |-> TRUE,
   requiredData |-> RequiredData(<<BybitEntry(dt_fundingRateHistory, DOGEUSDT),
                                   BybitEntry(dt_spotTickers, DOGEUSDT),
                                   BybitEntry(dt_orderbook, DOGEUSDT)>>,
                                 TRUE, <<>>, FALSE, <<>>, FALSE)]

\* a price series asked for with "technicalIndicators": []
plan_kline_no_indicators ==
  [isCasual |-> FALSE, response |-> NoResponse,
   hasRequiredData |-> TRUE,
   requiredData |-> RequiredData(<<BybitEntry(dt_kline, BTCUSDT)>>,
                                 FALSE, <<>>, FALSE, <<>>, TRUE)]

OraclePlans ==
  { plan_casual, plan_casual_with_data, plan_neither, plan_full,
    plan_null_params, plan_other_types, plan_kline_no_indicators }


(***************************************************************************)
(* Fallback pool constants (UniversalMultiDataProvider)                    *)
(***************************************************************************)
\* Object.keys(this.providers) sorted by priority 1, 2, 3
providerOrder == <<"binance", "coinbase", "coingecko">>

ProviderNames == {"binance", "coinbase", "coingecko"}

\* this.providers[p].priority
priority == [binance |-> 1, coinbase |-> 2, coingecko |-> 3]

\* keys of universalSymbolMap; every entry maps all three providers
universalSymbols == {BTCUSDT, ETHUSDT, SOLUSDT}

\* getRecentMessages(chatId, 12)
RecentLimit == 12

(***************************************************************************)
(* State                                                                   *)
(***************************************************************************)
VARIABLES
  memoryEnabled,  \* this.memory is set (engine built with a dbManager)
  chatMessages,   \* collection chatMessages of the chat, oldest first
  chatMemory,     \* document of the chat in collection chatMemories
  providers,      \* this.providers[p].active of the fallback pool
  probe,          \* state of each start-up reachability probe
  initialized,    \* UniversalDataFallback.initialized
  pc,             \* position of the request inside handleUserQuery
  req,            \* arguments of the running call and its memory context
  plan,           \* value returned by createDynamicDataPlan
  agg,            \* aggregatedData
  cursor,         \* loop position inside the current aggregation step
  calls,          \* external calls made for the running request
  result,         \* what handleUserQuery returned or threw
  indicatorCall,  \* a call of the indicator library: arguments and return value
  peer            \* local variables of a second, suspended handleUserQuery call

vars ==
  << memoryEnabled, chatMessages, chatMemory, providers, probe, initialized,
     pc, req, plan, agg, cursor, calls, result, indicatorCall, peer >>

poolVars == << providers, probe, initialized >>

dbVars == << chatMessages, chatMemory >>

NoPlan ==
  [isCasual |-> FALSE, response |-> NoResponse,
   hasRequiredData |-> FALSE, requiredData |-> EmptyRequiredData]

\* const aggregatedData = { sources: [] }
NewAggregatedData ==
  [sources |-> <<>>, data |-> {}, klineIterable |-> FALSE, livePrice |-> FALSE,
   hasWebContent |-> FALSE, webContent |-> <<>>, enhancedIndicators |-> FALSE,
   fallbackTickers |-> "none", confidenceScore |-> -1]

NoCalls ==
  [oracle |-> 0, planner |-> "none", memoryReads |-> 0, bybit |-> <<>>, fallback |-> <<>>,
   providers |-> <<>>, livePrice |-> 0, web |-> <<>>, webOutcomes |-> <<>>,
   indicators |-> 0, final |-> 0, summary |-> 0, oracleFailures |-> {},
   memoryWrites |-> 0, upsertFailed |-> FALSE]

NoRequest ==
  [via |-> "none", userQuery |-> NoText, chatId |-> FALSE, recent |-> <<>>,
   finalResponse |-> NoText]

NoResult ==
  [kind |-> "none", isAnalysis |-> FALSE, response |-> NoText,
   dataSources |-> <<>>, hasLivePrice |-> FALSE, confidenceScore |-> -1]

NoChatMemory == [summary |-> NoText, facts |-> {}, tags |-> {}]

UserMessage(content) == [type |-> "user", content |-> content]

AiMessage(content) == [type |-> "ai", content |-> content]

\* chat histories a call may find stored, of at most MaxMessages messages
StoredHistories ==
  { h \in
      { <<>>,
        <<UserMessage(q_analyze_BTC)>>,
        <<UserMessage(q_whats_ETH_price), AiMessage(FinalAnalysisText), UserMessage(q_analyze_BTC)>>,
        <<UserMessage(q_whats_ETH_price), AiMessage(FinalAnalysisText), UserMessage(q_What_did_I_ask)>>,
        <<UserMessage(q_whats_ETH_price), AiMessage(FinalAnalysisText), UserMessage(q_analyze_BTC),
          AiMessage(FinalAnalysisText)>> } :
      Len(h) <= MaxMessages }

AllPending == [p \in ProviderNames |-> "pending"]

AllJoined == [p \in ProviderNames |-> "joined"]

\* no call of the indicator library is being followed
NoIndicatorCall == [fn |-> "none", state |-> "none"]

\* the local variables of a handleUserQuery call that has not started
NoPeer ==
  [pc |-> "idle", req |-> NoRequest, plan |-> NoPlan, agg |-> NewAggregatedData,
   cursor |-> 0, calls |-> NoCalls, result |-> NoResult]

\* the engine's request-local state before any call
RequestIdle ==
  /\ indicatorCall = NoIndicatorCall
  /\ peer = NoPeer
  /\ pc = "idle"
  /\ req = NoRequest
  /\ plan = NoPlan
  /\ agg = NewAggregatedData
  /\ cursor = 0
  /\ calls = NoCalls
  /\ result = NoResult

\* process start: modules loaded, start-up probes in flight, nothing stored
ServerStart ==
  /\ memoryEnabled = TRUE
  /\ chatMessages = <<>>
  /\ chatMemory = NoChatMemory
  /\ providers = [p \in ProviderNames |-> FALSE]
  /\ probe = AllPending
  /\ initialized = FALSE
  /\ RequestIdle

\* a call of handleUserQuery finds the engine built with or without a
\* dbManager, a stored chat history, and the fallback pool either still
\* starting up or settled with any set of reachable providers
Init ==
  /\ memoryEnabled \in BOOLEAN
  /\ chatMessages \in StoredHistories
  /\ ~memoryEnabled => chatMessages = <<>>
  /\ chatMemory = NoChatMemory
  /\ \E settled \in BOOLEAN, reachable \in SUBSET ProviderNames :
       /\ ~settled => reachable = {}
       /\ providers = [p \in ProviderNames |-> p \in reachable]
       /\ probe = IF settled THEN AllJoined ELSE AllPending
       /\ initialized = (settled /\ reachable # {})
  /\ RequestIdle

(***************************************************************************)
(* Fallback pool start-up: universalDataFallback.initialize() at module    *)
(* load                                                                    *)
(***************************************************************************)
\* initializeBinance / initializeCoinbase / initializeCoinGecko: the ping
\* answered
ProbeSucceeds(p) ==
  /\ probe[p] = "pending"
  /\ probe' = [probe EXCEPT ![p] = "settled"]
  /\ providers' = [providers EXCEPT ![p] = TRUE]
  /\ UNCHANGED << indicatorCall, peer, memoryEnabled, dbVars, initialized, pc, req, plan, agg, cursor, calls, result >>

\* ... or failed / timed out: caught, flag left false
ProbeFails(p) ==
  /\ probe[p] = "pending"
  /\ probe' = [probe EXCEPT ![p] = "settled"]
  /\ UNCHANGED << indicatorCall, peer, memoryEnabled, dbVars, providers, initialized, pc, req, plan, agg, cursor, calls, result >>

\* Promise.allSettled resolved: initialized = activeProviders.length > 0
InitializeSettles ==
  /\ \A p \in ProviderNames : probe[p] = "settled"
  /\ probe' = AllJoined
  /\ initialized' = (\E p \in ProviderNames : providers[p])
  /\ UNCHANGED << indicatorCall, peer, memoryEnabled, dbVars, providers, pc, req, plan, agg, cursor, calls, result >>


(***************************************************************************)
(* MemoryManager reads                                                     *)
(***************************************************************************)
Last(seq, n) ==
  IF Len(seq) <= n THEN seq ELSE SubSeq(seq, Len(seq) - n + 1, Len(seq))

Reverse(seq) == [i \in 1..Len(seq) |-> seq[Len(seq) + 1 - i]]

IsUserMessage(m) == m.type = "user"

\* variant: msgs[0], the most recent user message
getLastUserMessage_MostRecent(messages) ==
  LET msgs == Reverse(Last(SelectSeq(messages, IsUserMessage), 2))
  IN IF Len(msgs) >= 1 /\ msgs[1].content # NoText THEN msgs[1].content ELSE NoText

\* variant: find({chatId}) without the type filter
getLastUserMessage_AnyType(messages) ==
  LET msgs == Reverse(Last(messages, 2))
  IN IF Len(msgs) >= 2 /\ msgs[2].content # NoText THEN msgs[2].content ELSE NoText

\* MemoryManager.getLastUserMessage: find({chatId, type:'user'})
\* .sort({timestamp:-1}).limit(2), then msgs[1]?.content || null
\* (NoText stands for null; an empty content is falsy as well)
getLastUserMessage(messages) ==
  LET msgs == Reverse(Last(SelectSeq(messages, IsUserMessage), 2))
  IN IF Len(msgs) >= 2 /\ msgs[2].content # NoText THEN msgs[2].content ELSE NoText

\* MemoryManager.getRecentMessages: newest `limit` messages, returned oldest
\* first with type 'ai' renamed to role 'assistant'
getRecentMessages(messages, limit) ==
  LET msgs == Reverse(Last(messages, limit))
      rev == Reverse(msgs)
  IN [i \in 1..Len(rev) |->
        [role |-> IF rev[i].type = "ai" THEN "assistant" ELSE "user",
         content |-> rev[i].content]]

(***************************************************************************)
(* Entry points                                                            *)
(***************************************************************************)
StartRequest(via, userQuery, chatId) ==
  /\ req' = [via |-> via, userQuery |-> userQuery, chatId |-> chatId,
             recent |-> <<>>, finalResponse |-> NoText]
  /\ plan' = NoPlan
  /\ agg' = NewAggregatedData
  /\ cursor' = 0
  /\ calls' = NoCalls
  /\ result' = NoResult
  /\ pc' = "enter"

\* variant: the message is handed to handleUserQuery first and saved only
\* with the answer
PostChat_SavesAfterwards(message) ==
  /\ pc = "idle"
  /\ memoryEnabled
  /\ Len(trim(message)) # 0
  /\ Len(chatMessages) < MaxMessages
  /\ StartRequest("route", message, TRUE)
  /\ UNCHANGED << indicatorCall, peer, memoryEnabled, dbVars, poolVars >>

\* POST /api/chat: the message is validated, saved, and then handed to
\* handleUserQuery with the chat id
PostChat(message) ==
  /\ pc = "idle"
  /\ memoryEnabled
  /\ Len(trim(message)) # 0
  /\ Len(chatMessages) < MaxMessages
  /\ chatMessages' = Append(chatMessages, UserMessage(message))
  /\ StartRequest("route", message, TRUE)
  /\ UNCHANGED << indicatorCall, peer, memoryEnabled, chatMemory, poolVars >>

\* handleUserQuery(userQuery, options) called on the engine itself
CallHandleUserQuery(userQuery, chatId) ==
  /\ pc = "idle"
  /\ StartRequest("direct", userQuery, chatId)
  /\ UNCHANGED << indicatorCall, peer, memoryEnabled, dbVars, poolVars >>

(***************************************************************************)
(* handleUserQuery: last-question shortcut and memory context              *)
(***************************************************************************)
TakesLastQuestionPath ==
  isLastQuestionQuery(req.userQuery) /\ req.chatId /\ memoryEnabled

AnswerLastQuestion ==
  /\ pc = "enter"
  /\ TakesLastQuestionPath
  /\ LET lastQuestion == getLastUserMessage(chatMessages) IN
       result' = [NoResult EXCEPT
                    !.kind = "returned",
                    !.isAnalysis = FALSE,
                    !.response = IF lastQuestion # NoText
                                   THEN PreviousQuestion(lastQuestion)
                                   ELSE NoPreviousQuestion]
  /\ calls' = [calls EXCEPT !.memoryReads = @ + 1]
  /\ pc' = "done"
  /\ UNCHANGED << indicatorCall, peer, memoryEnabled, dbVars, poolVars, req, plan, agg, cursor >>

LoadMemoryContext ==
  /\ pc = "enter"
  /\ ~TakesLastQuestionPath
  /\ IF memoryEnabled /\ req.chatId
       THEN /\ req' = [req EXCEPT !.recent = getRecentMessages(chatMessages, RecentLimit)]
            /\ calls' = [calls EXCEPT !.memoryReads = @ + 1]
       ELSE UNCHANGED << req, calls >>
  /\ pc' = "plan"
  /\ UNCHANGED << indicatorCall, peer, memoryEnabled, dbVars, poolVars, plan, agg, cursor, result >>

(***************************************************************************)
(* SallyBrain.createDynamicDataPlan                                        *)
(***************************************************************************)
\* variant: the recent turns are not looked at
TakesCasualShortcut_IgnoresContext ==
  isCasualOnly(req.userQuery)

TakesCasualShortcut ==
  isCasualOnly(req.userQuery) /\ Len(req.recent) = 0

PlanCasualShortcut ==
  /\ pc = "plan"
  /\ TakesCasualShortcut
  /\ calls' = [calls EXCEPT !.planner = "shortcut"]
  /\ plan' = CasualShortcutPlan
  /\ pc' = "planned"
  /\ UNCHANGED << indicatorCall, peer, memoryEnabled, dbVars, poolVars, req, agg, cursor, result >>

\* queryLocalLLM(planningPrompt, false) answered with a JSON object, which is
\* returned as the plan
PlanFromOracle(oraclePlan) ==
  /\ pc = "plan"
  /\ ~TakesCasualShortcut
  /\ calls' = [calls EXCEPT !.oracle = @ + 1, !.planner = "oracle"]
  /\ plan' = oraclePlan
  /\ pc' = "planned"
  /\ UNCHANGED << indicatorCall, peer, memoryEnabled, dbVars, poolVars, req, agg, cursor, result >>

\* queryLocalLLM threw (transport error, timeout, no text, no JSON object,
\* JSON.parse error): createFallbackPlan answers
PlanFromFallback ==
  /\ pc = "plan"
  /\ ~TakesCasualShortcut
  /\ calls' = [calls EXCEPT !.oracle = @ + 1, !.planner = "fallback"]
  /\ plan' = createFallbackPlan(req.userQuery)
  /\ pc' = "planned"
  /\ UNCHANGED << indicatorCall, peer, memoryEnabled, dbVars, poolVars, req, agg, cursor, result >>

\* if (plan.isCasual) return { isAnalysis: false, response: plan.response }
ReturnCasual ==
  /\ pc = "planned"
  /\ plan.isCasual
  /\ result' = [NoResult EXCEPT !.kind = "returned", !.isAnalysis = FALSE,
                                !.response = plan.response]
  /\ pc' = "done"
  /\ UNCHANGED << indicatorCall, peer, memoryEnabled, dbVars, poolVars, req, plan, agg, cursor, calls >>

\* const requiredData = plan.requiredData || {}; aggregatedData = {sources: []}
requiredData ==
  IF plan.hasRequiredData THEN plan.requiredData ELSE EmptyRequiredData

\* variant: a casual plan that carries requiredData is aggregated as well
BeginAggregation_WhenDataPresent ==
  /\ pc = "planned"
  /\ ~plan.isCasual \/ plan.hasRequiredData
  /\ agg' = NewAggregatedData
  /\ cursor' = 1
  /\ pc' = "bybit"
  /\ UNCHANGED << indicatorCall, peer, memoryEnabled, dbVars, poolVars, req, plan, calls, result >>

BeginAggregation ==
  /\ pc = "planned"
  /\ ~plan.isCasual
  /\ agg' = NewAggregatedData
  /\ cursor' = 1
  /\ pc' = "bybit"
  /\ UNCHANGED << indicatorCall, peer, memoryEnabled, dbVars, poolVars, req, plan, calls, result >>


(***************************************************************************)
(* handleUserQuery step 2: primary market data and fallback                *)
(***************************************************************************)
Source(type, resource, status) ==
  [type |-> type, resource |-> resource, status |-> status]

\* fetchBybitData reaches a client call for kline* and the three switch cases;
\* every other dataType throws "Unsupported Bybit dataType"
IsSupportedDataType(dataType) ==
  \/ startsWith(dataType, dt_kline)
  \/ dataType \in {dt_tickers, dt_fundingRateHistory, dt_longShortRatio}

\* variant: the fallback is tried after the failure of any entry
IsTickerClass_AnyType(dataType) == TRUE

\* dataType.includes('tickers') || dataType === 'tickers'
IsTickerClass(dataType) ==
  includes(dataType, dt_tickers) \/ dataType = dt_tickers

\* shapes of a successful answer: result.result.list, or result.result when
\* the list is missing (observable for kline only, which is spread later)
SuccessShapes(dataType) ==
  IF dataType = dt_kline THEN {"list", "object"} ELSE {"list"}

\* for ... of Object.entries(requiredData.bybit): loop exit
BybitLoopEnds ==
  /\ pc = "bybit"
  /\ cursor > Len(requiredData.bybit)
  /\ pc' = "live"
  /\ cursor' = 0
  /\ UNCHANGED << indicatorCall, peer, memoryEnabled, dbVars, poolVars, req, plan, agg, calls, result >>

\* fetchBybitData returned: retCode 0
BybitFetchSucceeds(shape) ==
  /\ pc = "bybit"
  /\ cursor <= Len(requiredData.bybit)
  /\ LET entry == requiredData.bybit[cursor] IN
       /\ IsSupportedDataType(entry.dataType)
       /\ shape \in SuccessShapes(entry.dataType)
       /\ calls' = [calls EXCEPT !.bybit = Append(@, entry.dataType)]
       /\ agg' = [agg EXCEPT
                    !.data = @ \cup {entry.dataType},
                    !.klineIterable = IF entry.dataType = dt_kline
                                        THEN shape = "list" ELSE @,
                    !.sources = Append(@, Source("bybit", entry.dataType, "success"))]
  /\ cursor' = cursor + 1
  /\ UNCHANGED << indicatorCall, peer, memoryEnabled, dbVars, poolVars, pc, req, plan, result >>

\* fetchBybitData threw (unsupported type, transport error, retCode # 0): the
\* failed source is recorded; a ticker-class entry then reads params.symbol and
\* awaits tryFallbackData.  With params null that read throws inside the catch
\* block and leaves through the outer catch of handleUserQuery.
BybitFetchFails ==
  /\ pc = "bybit"
  /\ cursor <= Len(requiredData.bybit)
  /\ LET entry == requiredData.bybit[cursor] IN
       /\ calls' = [calls EXCEPT
                      !.bybit = IF IsSupportedDataType(entry.dataType)
                                  THEN Append(@, entry.dataType) ELSE @,
                      !.fallback = IF IsTickerClass(entry.dataType) /\ ~entry.paramsNull
                                     THEN Append(@, entry.symbol) ELSE @]
       /\ agg' = [agg EXCEPT
                    !.sources = Append(@, Source("bybit", entry.dataType, "failed"))]
       /\ IF IsTickerClass(entry.dataType)
            THEN IF entry.paramsNull
                   THEN /\ pc' = "thrown"
                        /\ result' = [NoResult EXCEPT !.kind = "thrown"]
                        /\ UNCHANGED cursor
                   ELSE /\ pc' = "fallback"
                        /\ UNCHANGED << cursor, result >>
            ELSE /\ cursor' = cursor + 1
                 /\ UNCHANGED << pc, result >>
  /\ UNCHANGED << indicatorCall, peer, memoryEnabled, dbVars, poolVars, req, plan >>

\* getBackupData: if (!this.initialized) return null;
\* getUniversalData: if (!mapping) return null;
\* otherwise the providers are walked in priority order
FallbackSymbol == requiredData.bybit[cursor].symbol

\* variant: a null from the pool is raised as an error
FallbackReturnsNull_Throws ==
  /\ pc' = "thrown"
  /\ UNCHANGED << cursor, agg >>

\* tryFallbackData got null: nothing is recorded
FallbackReturnsNull ==
  /\ cursor' = cursor + 1
  /\ pc' = "bybit"
  /\ UNCHANGED << agg >>

FallbackUnavailable ==
  /\ pc = "fallback"
  /\ ~initialized \/ FallbackSymbol \notin universalSymbols
  /\ FallbackReturnsNull
  /\ UNCHANGED << indicatorCall, peer, memoryEnabled, dbVars, poolVars, req, plan, calls, result >>

\* this.universalSymbolMap[symbol]: the providers the symbol has an id for
\* (every entry of the table names all three)
mapping(symbol) ==
  IF symbol \in universalSymbols THEN ProviderNames ELSE {}

NoData == "none"

\* one query of the walk, as logged: the provider and whether it answered
ProviderQuery(provider, answered) == [provider |-> provider, answered |-> answered]

\* variant: the walk keeps going after an answer and returns the last one
RECURSIVE WalkProviders_KeepsGoing(_, _, _, _, _)
WalkProviders_KeepsGoing(symbol, answers, i, queried, data) ==
  IF i > Len(providerOrder) THEN [data |-> data, queried |-> queried]
  ELSE LET provider == providerOrder[i] IN
       IF providers[provider] /\ provider \in mapping(symbol)
         THEN WalkProviders_KeepsGoing(symbol, answers, i + 1,
                Append(queried, ProviderQuery(provider, answers[provider])),
                IF answers[provider] THEN provider ELSE data)
         ELSE WalkProviders_KeepsGoing(symbol, answers, i + 1, queried, data)

\* the for loop of getUniversalData from position i of the priority order:
\* an active provider with a mapping is queried (fetch*OnDemand returns the
\* provider's data or, on any error, null); the first data returned ends the
\* walk; answers[p] says whether p's request would succeed
RECURSIVE WalkProviders(_, _, _, _, _)
WalkProviders(symbol, answers, i, queried, data) ==
  IF i > Len(providerOrder) THEN [data |-> NoData, queried |-> queried]
  ELSE LET provider == providerOrder[i] IN
       IF providers[provider] /\ provider \in mapping(symbol)
         THEN IF answers[provider]
                THEN [data |-> provider,
                      queried |-> Append(queried, ProviderQuery(provider, TRUE))]
                ELSE WalkProviders(symbol, answers, i + 1,
                                   Append(queried, ProviderQuery(provider, FALSE)), data)
         ELSE WalkProviders(symbol, answers, i + 1, queried, data)

\* UniversalMultiDataProvider.getUniversalData(symbol)
getUniversalData(symbol, answers) ==
  IF mapping(symbol) = {} THEN [data |-> NoData, queried |-> <<>>]
  ELSE WalkProviders(symbol, answers, 1, <<>>, NoData)

\* variant: the pool is walked whether or not initialize() has completed
getBackupData_WithoutInitializedTest(symbol, answers) ==
  getUniversalData(symbol, answers)

\* UniversalDataFallback.getBackupData(symbol)
getBackupData(symbol, answers) ==
  IF ~initialized THEN [data |-> NoData, queried |-> <<>>]
  ELSE getUniversalData(symbol, answers)

\* variant: a provider that was asked and returned null is marked inactive
FallbackWalk_DeactivatesFailed(answers) ==
  /\ pc = "fallback"
  /\ initialized /\ FallbackSymbol \in universalSymbols
  /\ LET walk == getBackupData(FallbackSymbol, answers) IN
       /\ calls' = [calls EXCEPT !.providers = @ \o walk.queried]
       /\ providers' = [p \in ProviderNames |->
                          providers[p] /\ ~\E i \in 1..Len(walk.queried) :
                                              walk.queried[i] = ProviderQuery(p, FALSE)]
       /\ IF walk.data = NoData
            THEN FallbackReturnsNull
            ELSE /\ agg' = [agg EXCEPT
                              !.fallbackTickers = walk.data,
                              !.sources = Append(@, Source("fallback",
                                             <<walk.data, "_ticker">>, "success"))]
                 /\ cursor' = cursor + 1
                 /\ pc' = "bybit"
  /\ UNCHANGED << indicatorCall, peer, memoryEnabled, dbVars, probe, initialized, req, plan, result >>

\* tryFallbackData with an initialized pool and a mapped symbol: the walk is
\* made, and data that came back is converted and recorded
FallbackWalk(answers) ==
  /\ pc = "fallback"
  /\ initialized /\ FallbackSymbol \in universalSymbols
  /\ LET walk == getBackupData(FallbackSymbol, answers) IN
       /\ calls' = [calls EXCEPT !.providers = @ \o walk.queried]
       /\ IF walk.data = NoData
            THEN FallbackReturnsNull
            ELSE /\ agg' = [agg EXCEPT
                              !.fallbackTickers = walk.data,
                              !.sources = Append(@, Source("fallback",
                                             <<walk.data, "_ticker">>, "success"))]
                 /\ cursor' = cursor + 1
                 /\ pc' = "bybit"
  /\ UNCHANGED << indicatorCall, peer, memoryEnabled, dbVars, poolVars, req, plan, result >>

\* fetch*OnDemand call axios.get without a timeout option: a provider that
\* accepts the request and never answers leaves the await of the walk, and
\* with it tryFallbackData and handleUserQuery, pending.  The active
\* providers before p in priority order have been asked and returned null.
FallbackProviderNeverAnswers(p) ==
  /\ pc = "fallback"
  /\ initialized /\ FallbackSymbol \in universalSymbols
  /\ providers[p] /\ p \in mapping(FallbackSymbol)
  /\ LET IsAskedBefore(q) == providers[q] /\ priority[q] < priority[p]
         before == SelectSeq(providerOrder, IsAskedBefore)
     IN calls' = [calls EXCEPT
                    !.providers = @ \o [i \in 1..Len(before) |-> ProviderQuery(before[i], FALSE)]]
  /\ pc' = "pending"
  /\ UNCHANGED << indicatorCall, peer, memoryEnabled, dbVars, poolVars, req, plan, agg, cursor, result >>


(***************************************************************************)
(* handleUserQuery step 2, continued: live price, web search, indicators   *)
(***************************************************************************)
\* number of entries of LivePriceFetcher.priceAPIs
PriceApiCount == 3

LivePriceSkipped ==
  /\ pc = "live"
  /\ ~requiredData.livePrice
  /\ pc' = "web"
  /\ UNCHANGED << indicatorCall, peer, memoryEnabled, dbVars, poolVars, req, plan, agg, cursor, calls, result >>

\* fetchLivePrice(userQuery): null when no symbol is found in the query or
\* when every price API failed (each failure is caught inside the loop);
\* answeredBy = 0 stands for "no API answered"
LivePriceFetched(answeredBy) ==
  /\ pc = "live"
  /\ requiredData.livePrice
  /\ answeredBy \in 0..PriceApiCount
  /\ LET symbol == extractSymbolFromQuery(req.userQuery)
         price == symbol # NoText /\ answeredBy # 0
     IN /\ symbol = NoText => answeredBy = 0
        /\ calls' = [calls EXCEPT !.livePrice = @ + 1]
        /\ IF price
             THEN agg' = [agg EXCEPT
                            !.livePrice = TRUE,
                            !.sources = Append(@, Source("live_price", <<"live_price_api">>, "success"))]
             ELSE UNCHANGED agg
  /\ pc' = "web"
  /\ UNCHANGED << indicatorCall, peer, memoryEnabled, dbVars, poolVars, req, plan, cursor, result >>

WebSearchSkipped ==
  /\ pc = "web"
  /\ ~requiredData.webSearchIsArray
  /\ pc' = "indicators"
  /\ UNCHANGED << indicatorCall, peer, memoryEnabled, dbVars, poolVars, req, plan, agg, cursor, calls, result >>

\* aggregatedData.webContent = []
WebSearchBegins ==
  /\ pc = "web"
  /\ requiredData.webSearchIsArray
  /\ agg' = [agg EXCEPT !.hasWebContent = TRUE, !.webContent = <<>>]
  /\ cursor' = 1
  /\ pc' = "webQuery"
  /\ UNCHANGED << indicatorCall, peer, memoryEnabled, dbVars, poolVars, req, plan, calls, result >>

NoWebResults == <<"No web results found.">>

WebContext == <<"web context">>

\* what a search can come to: text built from the answer and the results, a
\* response without any text, or a transport-level failure (timeout, network
\* error, non-2xx response, missing API key)
WebOutcomes == {"context", "empty", "error"}

\* variant: a search without results is recorded as failed and leaves the loop
WebSearchQuery_StopsOnFailure(outcome) ==
  /\ pc = "webQuery"
  /\ cursor <= Len(requiredData.webSearch)
  /\ LET query == requiredData.webSearch[cursor] IN
       /\ calls' = [calls EXCEPT !.web = Append(@, query),
                                 !.webOutcomes = Append(@, outcome)]
       /\ IF outcome = "context"
            THEN /\ agg' = [agg EXCEPT
                              !.webContent = Append(@, [query |-> query, content |-> WebContext]),
                              !.sources = Append(@, Source("web", query, "success"))]
                 /\ cursor' = cursor + 1
                 /\ UNCHANGED pc
            ELSE /\ agg' = [agg EXCEPT
                              !.sources = Append(@, Source("web", query, "failed"))]
                 /\ cursor' = 0
                 /\ pc' = "indicators"
  /\ UNCHANGED << indicatorCall, peer, memoryEnabled, dbVars, poolVars, req, plan, result >>

\* fetchTavilyContext: the context text, or null when the response holds no
\* text, when the key is missing, and from its catch of every transport error
fetchTavilyContext(outcome) ==
  IF outcome = "context" THEN WebContext ELSE NoText

\* searchAndSummarizeWeb: the trimmed context, or 'No web results found.' for
\* null; the call itself never rejects
searchAndSummarizeWeb(outcome) ==
  LET context == fetchTavilyContext(outcome)
  IN IF context # NoText /\ Len(context) > 0 THEN context ELSE NoWebResults

\* body of the web-search loop: the awaited text is pushed to webContent and a
\* 'web' source with status success is recorded
WebSearchQuery(outcome) ==
  /\ pc = "webQuery"
  /\ cursor <= Len(requiredData.webSearch)
  /\ LET query == requiredData.webSearch[cursor]
         content == searchAndSummarizeWeb(outcome)
     IN /\ calls' = [calls EXCEPT !.web = Append(@, query),
                                  !.webOutcomes = Append(@, outcome)]
        /\ agg' = [agg EXCEPT
                     !.webContent = Append(@, [query |-> query, content |-> content]),
                     !.sources = Append(@, Source("web", query, "success"))]
  /\ cursor' = cursor + 1
  /\ UNCHANGED << indicatorCall, peer, memoryEnabled, dbVars, poolVars, pc, req, plan, result >>

WebSearchEnds ==
  /\ pc = "webQuery"
  /\ cursor > Len(requiredData.webSearch)
  /\ cursor' = 0
  /\ pc' = "indicators"
  /\ UNCHANGED << indicatorCall, peer, memoryEnabled, dbVars, poolVars, req, plan, agg, calls, result >>

\* requiredData.technicalIndicators && aggregatedData.kline
IndicatorStepRuns ==
  requiredData.hasTechnicalIndicators /\ dt_kline \in agg.data

IndicatorsSkipped ==
  /\ pc = "indicators"
  /\ ~IndicatorStepRuns
  /\ pc' = "score"
  /\ UNCHANGED << indicatorCall, peer, memoryEnabled, dbVars, poolVars, req, plan, agg, cursor, calls, result >>

\* calculateRequestedIndicators: [...klineData] throws when the kline result is
\* not a list; otherwise every name is handled inside its own try
IndicatorsCalculated ==
  /\ pc = "indicators"
  /\ IndicatorStepRuns
  /\ calls' = [calls EXCEPT !.indicators = @ + 1]
  /\ agg' = IF agg.klineIterable
              THEN [agg EXCEPT
                      !.enhancedIndicators = TRUE,
                      !.sources = Append(@, Source("calculation", <<"technicalIndicators">>, "success"))]
              ELSE [agg EXCEPT
                      !.sources = Append(@, Source("calculation", <<"technicalIndicators">>, "failed"))]
  /\ pc' = "score"
  /\ UNCHANGED << indicatorCall, peer, memoryEnabled, dbVars, poolVars, req, plan, cursor, result >>

(***************************************************************************)
(* Step 3: confidence score                                                *)
(***************************************************************************)
IsSuccess(s) == s.status = "success"

Min(a, b) == IF a < b THEN a ELSE b

Max(a, b) == IF a > b THEN a ELSE b

\* variant: the result is not clamped
calculateConfidenceScore_NoClamp(a) ==
  LET successfulSources == Len(SelectSeq(a.sources, IsSuccess))
      totalSources == Len(a.sources)
      ratio == IF totalSources > 0
                 THEN (60 * successfulSources + totalSources) \div (2 * totalSources)
                 ELSE 0
  IN 50 + ratio
     + (IF a.livePrice THEN 10 ELSE 0)
     + (IF a.enhancedIndicators THEN 10 ELSE 0)
     + (IF a.hasWebContent /\ Len(a.webContent) > 0 THEN 5 ELSE 0)

\* variant: Math.floor in place of Math.round
calculateConfidenceScore_Floor(a) ==
  LET successfulSources == Len(SelectSeq(a.sources, IsSuccess))
      totalSources == Len(a.sources)
      ratio == IF totalSources > 0
                 THEN (30 * successfulSources) \div totalSources
                 ELSE 0
      confidence == 50 + ratio
                    + (IF a.livePrice THEN 10 ELSE 0)
                    + (IF a.enhancedIndicators THEN 10 ELSE 0)
                    + (IF a.hasWebContent /\ Len(a.webContent) > 0 THEN 5 ELSE 0)
  IN Min(Max(confidence, 0), 100)

\* Math.round(50 + bonuses + 30 * successful / total): the bonuses are whole
\* numbers, so only the ratio term is rounded (half up)
calculateConfidenceScore(a) ==
  LET successfulSources == Len(SelectSeq(a.sources, IsSuccess))
      totalSources == Len(a.sources)
      ratio == IF totalSources > 0
                 THEN (60 * successfulSources + totalSources) \div (2 * totalSources)
                 ELSE 0
      confidence == 50 + ratio
                    + (IF a.livePrice THEN 10 ELSE 0)
                    + (IF a.enhancedIndicators THEN 10 ELSE 0)
                    + (IF a.hasWebContent /\ Len(a.webContent) > 0 THEN 5 ELSE 0)
  IN Min(Max(confidence, 0), 100)

ScoreConfidence ==
  /\ pc = "score"
  /\ agg' = [agg EXCEPT !.confidenceScore = calculateConfidenceScore(agg)]
  /\ pc' = "final"
  /\ UNCHANGED << indicatorCall, peer, memoryEnabled, dbVars, poolVars, req, plan, cursor, calls, result >>


(***************************************************************************)
(* Steps 4 and 5: final analysis, memory update, return                    *)
(***************************************************************************)
AnalysisResult ==
  [kind |-> "returned", isAnalysis |-> TRUE, response |-> req.finalResponse,
   dataSources |-> agg.sources, hasLivePrice |-> agg.livePrice,
   confidenceScore |-> agg.confidenceScore]

\* generateFinalAnalysis answered; without memory or chat id the result is
\* returned at once
FinalAnalysisAnswers ==
  /\ pc = "final"
  /\ calls' = [calls EXCEPT !.final = @ + 1]
  /\ req' = [req EXCEPT !.finalResponse = FinalAnalysisText]
  /\ IF memoryEnabled /\ req.chatId
       THEN /\ pc' = "memory"
            /\ UNCHANGED result
       ELSE /\ pc' = "done"
            /\ result' = [AnalysisResult EXCEPT !.response = FinalAnalysisText]
  /\ UNCHANGED << indicatorCall, peer, memoryEnabled, dbVars, poolVars, plan, agg, cursor >>

\* generateFinalAnalysis rejected (queryLocalLLM rethrows): the outer catch of
\* handleUserQuery rethrows "Dynamic Analysis failed: ..."
FinalAnalysisFails ==
  /\ pc = "final"
  /\ calls' = [calls EXCEPT !.final = @ + 1]
  /\ result' = [NoResult EXCEPT !.kind = "thrown"]
  /\ pc' = "thrown"
  /\ UNCHANGED << indicatorCall, peer, memoryEnabled, dbVars, poolVars, req, plan, agg, cursor >>

tag_price == <<"p","r","i","c","e">>

tag_technical_analysis == <<"t","e","c","h","n","i","c","a","l","-","a","n","a","l","y","s","i","s">>

tag_news == <<"n","e","w","s">>

tag_prediction == <<"p","r","e","d","i","c","t","i","o","n">>

tagSymbols ==
  { <<"b","t","c">>, <<"b","i","t","c","o","i","n">>, <<"e","t","h">>,
    <<"e","t","h","e","r","e","u","m">>, <<"s","o","l">>, <<"s","o","l","a","n","a">>,
    <<"a","d","a">>, <<"c","a","r","d","a","n","o">> }

\* MemoryManager.deriveTags, as the set upsertChatMemory makes of it
deriveTags(userQuery) ==
  LET query == toLowerCase(userQuery) IN
  { toUpperCase(symbol) : symbol \in { t \in tagSymbols : includes(query, t) } }
  \cup (IF includes(query, tag_price) THEN {tag_price} ELSE {})
  \cup (IF includes(query, kw_technical) \/ includes(query, kw_analysis)
          THEN {tag_technical_analysis} ELSE {})
  \cup (IF includes(query, tag_news) THEN {tag_news} ELSE {})
  \cup (IF includes(query, tag_prediction) THEN {tag_prediction} ELSE {})

SummaryText == <<"conversation summary">>

\* an array of twenty-one facts, one more than upsertChatMemory keeps
ManyFacts ==
  << "fact 01", "fact 02", "fact 03", "fact 04", "fact 05", "fact 06",
     "fact 07", "fact 08", "fact 09", "fact 10", "fact 11", "fact 12",
     "fact 13", "fact 14", "fact 15", "fact 16", "fact 17", "fact 18",
     "fact 19", "fact 20", "fact 21" >>

\* JSON arrays the summarization oracle may return for extractFacts
FactLists == { <<>>, <<"likes BTC", "low risk">>, ManyFacts }

\* (facts || []).slice(-20)
FactSliceLimit == 20

Range(seq) == { seq[i] : i \in 1..Len(seq) }

\* variant: $set of the facts instead of $addToSet
upsertChatMemory_ReplacesFacts(memory, summary, facts, tags) ==
  [summary |-> summary, tags |-> tags,
   facts |-> Range(Last(facts, FactSliceLimit))]

\* MemoryManager.upsertChatMemory: $set summary and tags, $addToSet facts
upsertChatMemory(memory, summary, facts, tags) ==
  [summary |-> summary, tags |-> tags,
   facts |-> memory.facts \cup Range(Last(facts, FactSliceLimit))]

\* summarizeConversationForMemory: '' without recent turns, without a call of
\* the oracle; its catch turns a failing oracle into ''
summarizeConversationForMemory(recentMessages, oracleOk) ==
  IF Len(recentMessages) = 0 THEN NoText
  ELSE IF oracleOk THEN trim(SummaryText)
  ELSE NoText

\* extractFacts: [] without recent turns; its catch turns a failing oracle or
\* an unparsable array into []
extractFacts(recentMessages, oracleOk, facts) ==
  IF Len(recentMessages) = 0 THEN <<>>
  ELSE IF oracleOk THEN facts
  ELSE <<>>

\* variant: the memory update is not wrapped in a try of its own; a rejected
\* upsert reaches the outer catch
UpdateMemory_UpsertFailureIsFatal(summaryOk, factsOk, facts, upsertOk) ==
  /\ pc = "memory"
  /\ facts \in FactLists
  /\ LET hasTurns == Len(req.recent) # 0
         newSummary == summarizeConversationForMemory(req.recent, summaryOk)
         newFacts == extractFacts(req.recent, factsOk, facts)
     IN /\ ~hasTurns => (summaryOk /\ factsOk /\ facts = <<>>)
        /\ ~factsOk => facts = <<>>
        /\ calls' = [calls EXCEPT
                       !.summary = IF hasTurns THEN @ + 2 ELSE @,
                       !.oracleFailures = (IF summaryOk THEN {} ELSE {"summary"})
                                            \cup (IF factsOk THEN {} ELSE {"facts"}),
                       !.memoryWrites = @ + 1,
                       !.upsertFailed = ~upsertOk]
        /\ chatMemory' = IF upsertOk
                           THEN upsertChatMemory(chatMemory, newSummary, newFacts,
                                                 deriveTags(req.userQuery))
                           ELSE chatMemory
  /\ IF upsertOk
       THEN result' = AnalysisResult /\ pc' = "done"
       ELSE result' = [NoResult EXCEPT !.kind = "thrown"] /\ pc' = "thrown"
  /\ UNCHANGED << indicatorCall, peer, memoryEnabled, chatMessages, poolVars, req, plan, agg, cursor >>

\* variant: the two helpers let the oracle's rejection through and nothing
\* around the memory update catches it
UpdateMemory_OracleFailureIsFatal(summaryOk, factsOk, facts, upsertOk) ==
  /\ pc = "memory"
  /\ facts \in FactLists
  /\ LET hasTurns == Len(req.recent) # 0
     IN /\ ~hasTurns => (summaryOk /\ factsOk /\ facts = <<>>)
        /\ ~factsOk => facts = <<>>
        /\ calls' = [calls EXCEPT
                       !.summary = IF hasTurns THEN @ + 2 ELSE @,
                       !.oracleFailures = (IF summaryOk THEN {} ELSE {"summary"})
                                            \cup (IF factsOk THEN {} ELSE {"facts"}),
                       !.memoryWrites = IF summaryOk /\ factsOk THEN @ + 1 ELSE @]
        /\ chatMemory' = IF upsertOk /\ summaryOk /\ factsOk
                           THEN upsertChatMemory(chatMemory, SummaryText, facts,
                                                 deriveTags(req.userQuery))
                           ELSE chatMemory
  /\ IF summaryOk /\ factsOk
       THEN result' = AnalysisResult /\ pc' = "done"
       ELSE result' = [NoResult EXCEPT !.kind = "thrown"] /\ pc' = "thrown"
  /\ UNCHANGED << indicatorCall, peer, memoryEnabled, chatMessages, poolVars, req, plan, agg, cursor >>

\* step 5: the summary and the facts are asked of the oracle (no call when
\* there are no recent turns), then upserted; a failing upsert is caught by
\* the try around the update
UpdateMemory(summaryOk, factsOk, facts, upsertOk) ==
  /\ pc = "memory"
  /\ facts \in FactLists
  /\ LET hasTurns == Len(req.recent) # 0
         newSummary == summarizeConversationForMemory(req.recent, summaryOk)
         newFacts == extractFacts(req.recent, factsOk, facts)
     IN /\ ~hasTurns => (summaryOk /\ factsOk /\ facts = <<>>)
        /\ ~factsOk => facts = <<>>
        /\ calls' = [calls EXCEPT
                       !.summary = IF hasTurns THEN @ + 2 ELSE @,
                       !.oracleFailures = (IF summaryOk THEN {} ELSE {"summary"})
                                            \cup (IF factsOk THEN {} ELSE {"facts"}),
                       !.memoryWrites = @ + 1,
                       !.upsertFailed = ~upsertOk]
        /\ chatMemory' = IF upsertOk
                           THEN upsertChatMemory(chatMemory, newSummary, newFacts,
                                                 deriveTags(req.userQuery))
                           ELSE chatMemory
  /\ result' = AnalysisResult
  /\ pc' = "done"
  /\ UNCHANGED << indicatorCall, peer, memoryEnabled, chatMessages, poolVars, req, plan, agg, cursor >>

(***************************************************************************)
(* Callers                                                                 *)
(***************************************************************************)
\* the call has ended and its local variables are gone
CallEnds ==
  /\ pc' = "idle"
  /\ req' = NoRequest
  /\ plan' = NoPlan
  /\ agg' = NewAggregatedData
  /\ cursor' = 0
  /\ calls' = NoCalls

\* POST /api/chat after handleUserQuery returned: the AI message is saved and
\* the result is sent
RouteResponds ==
  /\ pc = "done"
  /\ req.via = "route"
  /\ chatMessages' = Append(chatMessages, AiMessage(result.response))
  /\ CallEnds
  /\ result' = NoResult
  /\ UNCHANGED << indicatorCall, peer, memoryEnabled, chatMemory, poolVars >>

\* POST /api/chat catch block: status 500
RouteAnswersError ==
  /\ pc = "thrown"
  /\ req.via = "route"
  /\ CallEnds
  /\ result' = NoResult
  /\ UNCHANGED << indicatorCall, peer, memoryEnabled, dbVars, poolVars >>

\* a direct caller holds the value or the exception
CallerResumes ==
  /\ pc \in {"done", "thrown"}
  /\ req.via = "direct"
  /\ CallEnds
  /\ UNCHANGED << indicatorCall, peer, memoryEnabled, dbVars, poolVars, result >>

(***************************************************************************)
(* Specification                                                           *)
(***************************************************************************)
\* the steps of one handleUserQuery call
EngineStep ==
  \/ AnswerLastQuestion
  \/ LoadMemoryContext
  \/ PlanCasualShortcut
  \/ \E oraclePlan \in OraclePlans : PlanFromOracle(oraclePlan)
  \/ PlanFromFallback
  \/ ReturnCasual
  \/ BeginAggregation
  \/ BybitLoopEnds
  \/ \E shape \in {"list", "object"} : BybitFetchSucceeds(shape)
  \/ BybitFetchFails
  \/ FallbackUnavailable
  \/ \E answers \in [ProviderNames -> BOOLEAN] : FallbackWalk(answers)
  \/ LivePriceSkipped
  \/ \E answeredBy \in 0..PriceApiCount : LivePriceFetched(answeredBy)
  \/ WebSearchSkipped
  \/ WebSearchBegins
  \/ \E outcome \in WebOutcomes : WebSearchQuery(outcome)
  \/ WebSearchEnds
  \/ IndicatorsSkipped
  \/ IndicatorsCalculated
  \/ ScoreConfidence
  \/ FinalAnalysisAnswers
  \/ FinalAnalysisFails
  \/ \E summaryOk \in BOOLEAN, factsOk \in BOOLEAN, facts \in FactLists, upsertOk \in BOOLEAN :
       UpdateMemory(summaryOk, factsOk, facts, upsertOk)

\* one call of handleUserQuery, with any query and with or without a chat id
Next ==
  \/ \E userQuery \in Queries, chatId \in BOOLEAN : CallHandleUserQuery(userQuery, chatId)
  \/ EngineStep

Spec == Init /\ [][Next]_vars


(***************************************************************************)
(* The planner alone: createDynamicDataPlan over a wide set of queries     *)
(***************************************************************************)
PlannerWords ==
  { <<"h","i">>, <<"H","e","l","l","o","!">>, <<"t","h","a","n","k","s">>,
    <<"b","t","c">>, <<"B","i","t","c","o","i","n">>, <<"E","T","H">>,
    <<"e","t","h","e","r","e","u","m">>, <<"S","o","l","a","n","a">>,
    <<"d","o","g","e">>, <<"p","r","i","c","e">>, <<"C","O","S","T">>,
    <<"a","n","a","l","y","s","i","s">>, <<"T","e","c","h","n","i","c","a","l">>,
    <<"n","e","w","s">> }

\* single words, padded words, ordered pairs of words, last-question phrasings
PlannerQueries ==
  PlannerWords
  \cup { <<" ">> \o w \o <<" ">> : w \in PlannerWords }
  \cup { a \o <<" ">> \o b : a \in PlannerWords, b \in PlannerWords }
  \cup { q_What_did_I_ask, q_my_last_question }

InitPlanner ==
  /\ memoryEnabled \in BOOLEAN
  /\ chatMessages \in StoredHistories
  /\ ~memoryEnabled => chatMessages = <<>>
  /\ chatMemory = NoChatMemory
  /\ providers = [p \in ProviderNames |-> FALSE]
  /\ probe = AllPending
  /\ initialized = FALSE
  /\ RequestIdle

\* a call followed up to the point where the plan is known
NextPlanner ==
  \/ \E userQuery \in PlannerQueries, chatId \in BOOLEAN : CallHandleUserQuery(userQuery, chatId)
  \/ AnswerLastQuestion
  \/ LoadMemoryContext
  \/ PlanCasualShortcut
  \/ \E oraclePlan \in OraclePlans : PlanFromOracle(oraclePlan)
  \/ PlanFromFallback
  \/ ReturnCasual

SpecPlanner == InitPlanner /\ [][NextPlanner]_vars


(***************************************************************************)
(* The fallback pool alone: start-up probes and tryFallbackData calls      *)
(***************************************************************************)
\* symbols a fallback lookup may be made for
PoolSymbols == universalSymbols \cup {DOGEUSDT}

\* tryFallbackData(symbol, aggregatedData) on a fresh aggregatedData, at any
\* moment of the pool's start-up; the awaits of the walk cannot interleave with
\* the probes, which have all settled once initialized is true
CallTryFallbackData(symbol, answers) ==
  /\ pc = "idle"
  /\ LET walk == getBackupData(symbol, answers) IN
       /\ calls' = [NoCalls EXCEPT !.fallback = <<symbol>>, !.providers = walk.queried]
       /\ agg' = IF walk.data = NoData
                   THEN NewAggregatedData
                   ELSE [NewAggregatedData EXCEPT
                           !.fallbackTickers = walk.data,
                           !.sources = <<Source("fallback", <<walk.data, "_ticker">>, "success")>>]
  /\ UNCHANGED << indicatorCall, peer, memoryEnabled, dbVars, poolVars, pc, req, plan, cursor, result >>

\* UniversalDataFallback.initialize() called again once the call made at
\* module load has returned: it returns at once when initialized is true, and
\* sends the three probes again otherwise (the call then returns when they
\* have settled)
CallInitialize ==
  /\ pc = "idle"
  /\ probe = AllJoined
  /\ probe' = IF initialized THEN probe ELSE AllPending
  /\ result' = [NoResult EXCEPT !.kind = IF initialized THEN "returned" ELSE "none"]
  /\ UNCHANGED << indicatorCall, peer, memoryEnabled, dbVars, providers, initialized, pc, req, plan, agg, cursor, calls >>

NextPool ==
  \/ \E p \in ProviderNames : ProbeSucceeds(p)
  \/ \E p \in ProviderNames : ProbeFails(p)
  \/ InitializeSettles
  \/ CallInitialize
  \/ \E symbol \in PoolSymbols, answers \in [ProviderNames -> BOOLEAN] :
       CallTryFallbackData(symbol, answers)

SpecPool == ServerStart /\ [][NextPool]_vars


(***************************************************************************)
(* One call with providers that may never answer.  Every other external    *)
(* call carries a timeout (live price 5 s, web search 12 s, oracle 45 s)   *)
(* and comes back as an answer or as an error; the event loop runs every   *)
(* continuation that is ready.                                             *)
(***************************************************************************)
AwaitQueries == {q_hi, q_Bitcoin_price, q_What_did_I_ask}

NextAwait ==
  \/ \E userQuery \in AwaitQueries, chatId \in BOOLEAN : CallHandleUserQuery(userQuery, chatId)
  \/ EngineStep
  \/ \E p \in ProviderNames : FallbackProviderNeverAnswers(p)

SpecAwait == Init /\ [][NextAwait]_vars /\ WF_vars(NextAwait)


(***************************************************************************)
(* The server: the fallback pool starts up while POST /api/chat requests   *)
(* of one chat are served one after the other; before the first of them    *)
(* the engine may be greeted directly, with the chat's id or without one   *)
(***************************************************************************)
\* messages posted to the chat
ServerMessages == {q_hi, q_Bitcoin_price, q_What_did_I_ask}

\* answers of the planning oracle
ServerPlans == {plan_casual, plan_kline_no_indicators}

NextServer ==
  \/ \E p \in ProviderNames : ProbeSucceeds(p)
  \/ \E p \in ProviderNames : ProbeFails(p)
  \/ InitializeSettles
  \/ \E message \in ServerMessages : PostChat(message)
  \/ chatMessages = <<>> /\ \E chatId \in BOOLEAN : CallHandleUserQuery(q_hi, chatId)
  \/ AnswerLastQuestion
  \/ LoadMemoryContext
  \/ PlanCasualShortcut
  \/ \E oraclePlan \in ServerPlans : PlanFromOracle(oraclePlan)
  \/ PlanFromFallback
  \/ ReturnCasual
  \/ BeginAggregation
  \/ BybitLoopEnds
  \/ BybitFetchSucceeds("list")
  \/ BybitFetchFails
  \/ FallbackUnavailable
  \/ \E answers \in [ProviderNames -> BOOLEAN] : FallbackWalk(answers)
  \/ LivePriceSkipped
  \/ \E answeredBy \in {0, 1} : LivePriceFetched(answeredBy)
  \/ WebSearchSkipped
  \/ WebSearchBegins
  \/ \E outcome \in {"context", "error"} : WebSearchQuery(outcome)
  \/ WebSearchEnds
  \/ IndicatorsSkipped
  \/ IndicatorsCalculated
  \/ ScoreConfidence
  \/ FinalAnalysisAnswers
  \/ FinalAnalysisFails
  \/ \E summaryOk \in BOOLEAN, upsertOk \in BOOLEAN : UpdateMemory(summaryOk, TRUE, <<>>, upsertOk)
  \/ RouteResponds
  \/ RouteAnswersError
  \/ CallerResumes

SpecServer == ServerStart /\ [][NextServer]_vars


(***************************************************************************)
(* The long-term memory of one chat over a sequence of analysis requests,  *)
(* posted to the route or made on the engine with the chat's id; the       *)
(* planning oracle is down and no market source can be reached             *)
(***************************************************************************)
\* what the requests ask
MemoryQueries == {q_Bitcoin_price, q_analyze_BTC}

\* the fallback pool has settled with no provider reachable
InitMemory ==
  /\ memoryEnabled = TRUE
  /\ chatMessages = <<>>
  /\ chatMemory = NoChatMemory
  /\ providers = [p \in ProviderNames |-> FALSE]
  /\ probe = AllJoined
  /\ initialized = FALSE
  /\ RequestIdle

NextMemory ==
  \/ \E message \in MemoryQueries : PostChat(message)
  \/ \E userQuery \in MemoryQueries : CallHandleUserQuery(userQuery, TRUE)
  \/ LoadMemoryContext
  \/ PlanFromFallback
  \/ BeginAggregation
  \/ BybitLoopEnds
  \/ BybitFetchFails
  \/ FallbackUnavailable
  \/ LivePriceSkipped
  \/ LivePriceFetched(0)
  \/ WebSearchBegins
  \/ WebSearchQuery("error")
  \/ WebSearchEnds
  \/ IndicatorsSkipped
  \/ ScoreConfidence
  \/ FinalAnalysisAnswers
  \/ FinalAnalysisFails
  \/ \E summaryOk \in BOOLEAN, factsOk \in BOOLEAN, facts \in FactLists, upsertOk \in BOOLEAN :
       UpdateMemory(summaryOk, factsOk, facts, upsertOk)
  \/ RouteResponds
  \/ RouteAnswersError
  \/ CallerResumes

SpecMemory == InitMemory /\ [][NextMemory]_vars


(***************************************************************************)
(* Two calls of handleUserQuery in flight on one engine.  userQuery, plan, *)
(* requiredData, aggregatedData and the loop positions are local variables *)
(* of each call; the event loop resumes either call at any await.          *)
(***************************************************************************)
\* variant: aggregatedData is kept on the engine (this.aggregatedData)
ContextSwitch_SharedAggregatedData ==
  /\ peer' = [pc |-> pc, req |-> req, plan |-> plan, agg |-> peer.agg, cursor |-> cursor,
              calls |-> calls, result |-> result]
  /\ pc' = peer.pc
  /\ req' = peer.req
  /\ plan' = peer.plan
  /\ cursor' = peer.cursor
  /\ calls' = peer.calls
  /\ result' = peer.result
  /\ UNCHANGED << agg, indicatorCall, memoryEnabled, dbVars, poolVars >>

\* the running call is suspended at its await (or has not started, or has
\* finished) and the other call is resumed with its own local variables
ContextSwitch ==
  /\ peer' = [pc |-> pc, req |-> req, plan |-> plan, agg |-> agg, cursor |-> cursor,
              calls |-> calls, result |-> result]
  /\ pc' = peer.pc
  /\ req' = peer.req
  /\ plan' = peer.plan
  /\ agg' = peer.agg
  /\ cursor' = peer.cursor
  /\ calls' = peer.calls
  /\ result' = peer.result
  /\ UNCHANGED << indicatorCall, memoryEnabled, dbVars, poolVars >>

\* the pool has settled with binance and coinbase reachable
InitConcurrent ==
  /\ memoryEnabled = FALSE
  /\ chatMessages = <<>>
  /\ chatMemory = NoChatMemory
  /\ providers = [p \in ProviderNames |-> p \in {"binance", "coinbase"}]
  /\ probe = AllJoined
  /\ initialized = TRUE
  /\ RequestIdle

NextConcurrent ==
  \/ ContextSwitch
  \/ \E userQuery \in {q_Bitcoin_price, q_analyze_BTC} : CallHandleUserQuery(userQuery, FALSE)
  \/ LoadMemoryContext
  \/ PlanFromFallback
  \/ BeginAggregation
  \/ BybitLoopEnds
  \/ BybitFetchSucceeds("list")
  \/ BybitFetchFails
  \/ \E answers \in [ProviderNames -> BOOLEAN] : FallbackWalk(answers)
  \/ LivePriceSkipped
  \/ \E answeredBy \in {0, 1} : LivePriceFetched(answeredBy)
  \/ WebSearchBegins
  \/ \E outcome \in {"context", "error"} : WebSearchQuery(outcome)
  \/ WebSearchEnds
  \/ IndicatorsSkipped
  \/ ScoreConfidence
  \/ FinalAnalysisAnswers
  \/ FinalAnalysisFails

SpecConcurrent == InitConcurrent /\ [][NextConcurrent]_vars


(***************************************************************************)
(* The confidence scorer alone: calculateConfidenceScore over aggregated   *)
(* data of every shape                                                     *)
(***************************************************************************)
\* longest sources list scored
MaxSources == 7

RECURSIVE SeqsUpTo(_, _)
SeqsUpTo(S, n) ==
  IF n = 0 THEN { <<>> }
  ELSE LET shorter == SeqsUpTo(S, n - 1)
       IN shorter \cup { Append(q, x) : q \in { r \in shorter : Len(r) = n - 1 }, x \in S }

\* aggregatedData as the scorer reads it: sources, livePrice,
\* enhancedIndicators, webContent (absent, empty or holding an entry)
ScoreInputs ==
  { [NewAggregatedData EXCEPT
       !.sources = ss, !.livePrice = lp, !.enhancedIndicators = ei,
       !.hasWebContent = wc # "absent",
       !.webContent = IF wc = "entry"
                        THEN << [query |-> w_news, content |-> WebContext] >> ELSE <<>>] :
    ss \in SeqsUpTo({ Source("bybit", dt_tickers, "success"),
                      Source("bybit", dt_tickers, "failed") }, MaxSources),
    lp \in BOOLEAN, ei \in BOOLEAN, wc \in {"absent", "empty", "entry"} }

InitScore ==
  /\ memoryEnabled = FALSE
  /\ chatMessages = <<>>
  /\ chatMemory = NoChatMemory
  /\ providers = [p \in ProviderNames |-> FALSE]
  /\ probe = AllPending
  /\ initialized = FALSE
  /\ pc = "score"
  /\ req = [NoRequest EXCEPT !.via = "direct", !.userQuery = q_Bitcoin_price]
  /\ plan = NoPlan
  /\ agg \in ScoreInputs
  /\ cursor = 0
  /\ calls = NoCalls
  /\ result = NoResult
  /\ indicatorCall = NoIndicatorCall
  /\ peer = NoPeer

NextScore == ScoreConfidence

SpecScore == InitScore /\ [][NextScore]_vars


(***************************************************************************)
(* TechnicalIndicators: numbers                                            *)
(*                                                                         *)
(* A value of the library is a JavaScript number, kept as an exact         *)
(* fraction n/d, or NaN, or null.                                          *)
(***************************************************************************)
Abs(x) == IF x < 0 THEN -x ELSE x

RECURSIVE GCD(_, _)
GCD(a, b) == IF b = 0 THEN a ELSE GCD(b, a % b)

\* the number n/d (d # 0) in lowest terms with a positive denominator
Num(n, d) ==
  LET g == GCD(Abs(n), Abs(d))
      sgn == IF d < 0 THEN -1 ELSE 1
  IN [kind |-> "num", n |-> (sgn * n) \div g, d |-> Abs(d) \div g]

FromInt(i) == Num(i, 1)

Null == [kind |-> "null", n |-> 0, d |-> 1]

NaN == [kind |-> "nan", n |-> 0, d |-> 1]

\* ToNumber of an operand: null counts as 0
ToNumber(x) == IF x.kind = "null" THEN FromInt(0) ELSE x

Add(x, y) ==
  LET a == ToNumber(x)
      b == ToNumber(y)
  IN IF a.kind = "nan" \/ b.kind = "nan" THEN NaN
     ELSE Num(a.n * b.d + b.n * a.d, a.d * b.d)

Sub(x, y) ==
  LET a == ToNumber(x)
      b == ToNumber(y)
  IN IF a.kind = "nan" \/ b.kind = "nan" THEN NaN
     ELSE Num(a.n * b.d - b.n * a.d, a.d * b.d)

Mul(x, y) ==
  LET a == ToNumber(x)
      b == ToNumber(y)
  IN IF a.kind = "nan" \/ b.kind = "nan" THEN NaN
     ELSE Num(a.n * b.n, a.d * b.d)

\* x / y; every divisor of the library is non-zero where it is reached, except
\* 0 / 0, which is NaN
Div(x, y) ==
  LET a == ToNumber(x)
      b == ToNumber(y)
  IN IF a.kind = "nan" \/ b.kind = "nan" \/ b.n = 0 THEN NaN
     ELSE Num(a.n * b.d, a.d * b.n)

\* x < y on numbers; false when either side is NaN
Less(x, y) ==
  LET a == ToNumber(x)
      b == ToNumber(y)
  IN a.kind = "num" /\ b.kind = "num" /\ a.n * b.d < b.n * a.d

\* an array argument, or a missing one (null / undefined)
Arr(list) == [present |-> TRUE, list |-> list]

Missing == [present |-> FALSE, list |-> <<>>]

\* values.slice(-k): the last k items; slice(-0) is the whole array
SliceLast(list, k) == IF k = 0 THEN list ELSE Last(list, k)

\* values.slice(0, j)
Prefix(list, j) == SubSeq(list, 1, j)

\* reduce((a, b) => a + b, 0)
RECURSIVE Sum(_)
Sum(list) == IF list = <<>> THEN FromInt(0) ELSE Add(Sum(SubSeq(list, 1, Len(list) - 1)), list[Len(list)])

(***************************************************************************)
(* TechnicalIndicators: the functions                                      *)
(***************************************************************************)
SMA(values, period) ==
  IF ~values.present \/ Len(values.list) < period THEN Null
  ELSE Div(Sum(SliceLast(values.list, period)), FromInt(period))

\* for (i = 1; i < length; i++) ema = values[i] * k + ema * (1 - k)
RECURSIVE EMALoop(_, _, _, _)
EMALoop(list, k, i, ema) ==
  IF i > Len(list) THEN ema
  ELSE EMALoop(list, k, i + 1, Add(Mul(list[i], k), Mul(ema, Sub(FromInt(1), k))))

EMA(values, period) ==
  IF ~values.present \/ Len(values.list) < period THEN Null
  ELSE EMALoop(values.list, Num(2, period + 1), 2, values.list[1])

\* gains and losses over the last `period` changes
RECURSIVE RSILoop(_, _, _, _)
RSILoop(list, i, gains, losses) ==
  IF i > Len(list) THEN [gains |-> gains, losses |-> losses]
  ELSE LET change == Sub(list[i], list[i - 1])
       IN IF Less(FromInt(0), change)
            THEN RSILoop(list, i + 1, Add(gains, change), losses)
            ELSE RSILoop(list, i + 1, gains, Sub(losses, change))

\* variant: the length test forgets the extra close; closes[-1] is undefined
\* and the sums become NaN
RSI_LengthOffByOne(closes, period) ==
  IF ~closes.present \/ Len(closes.list) < period THEN Null
  ELSE IF Len(closes.list) = period THEN NaN
  ELSE LET sums == RSILoop(closes.list, Len(closes.list) - period + 1, FromInt(0), FromInt(0))
           avgGain == Div(sums.gains, FromInt(period))
           avgLoss == Div(sums.losses, FromInt(period))
       IN IF avgLoss = FromInt(0) THEN FromInt(100)
          ELSE Sub(FromInt(100), Div(FromInt(100), Add(FromInt(1), Div(avgGain, avgLoss))))

\* variant: without the test of avgLoss; 0 / 0 is NaN and x / 0 is Infinity,
\* which gives 100
RSI_NoZeroLossTest(closes, period) ==
  IF ~closes.present \/ Len(closes.list) < period + 1 THEN Null
  ELSE LET sums == RSILoop(closes.list, Len(closes.list) - period + 1, FromInt(0), FromInt(0))
           avgGain == Div(sums.gains, FromInt(period))
           avgLoss == Div(sums.losses, FromInt(period))
       IN IF avgLoss = FromInt(0)
            THEN (IF avgGain = FromInt(0) THEN NaN ELSE FromInt(100))
            ELSE Sub(FromInt(100), Div(FromInt(100), Add(FromInt(1), Div(avgGain, avgLoss))))

RSI(closes, period) ==
  IF ~closes.present \/ Len(closes.list) < period + 1 THEN Null
  ELSE LET sums == RSILoop(closes.list, Len(closes.list) - period + 1, FromInt(0), FromInt(0))
           avgGain == Div(sums.gains, FromInt(period))
           avgLoss == Div(sums.losses, FromInt(period))
       IN IF avgLoss = FromInt(0) THEN FromInt(100)
          ELSE Sub(FromInt(100), Div(FromInt(100), Add(FromInt(1), Div(avgGain, avgLoss))))

MACD(closes, fastPeriod, slowPeriod, signalPeriod) ==
  IF ~closes.present \/ Len(closes.list) < slowPeriod + signalPeriod THEN Null
  ELSE LET emaFast == EMA(closes, fastPeriod)
           emaSlow == EMA(closes, slowPeriod)
       IN IF emaFast = Null \/ emaSlow = Null THEN Null
          ELSE LET macdLine == Sub(emaFast, emaSlow)
                   mapped == [j \in 1..Len(closes.list) |->
                                IF j < slowPeriod THEN FromInt(0)
                                ELSE Sub(EMA(Arr(Prefix(closes.list, j)), fastPeriod),
                                         EMA(Arr(Prefix(closes.list, j)), slowPeriod))]
                   macdValues == SubSeq(mapped, slowPeriod, Len(mapped))
                   signalLine == EMA(Arr(macdValues), signalPeriod)
               IN [kind |-> "macd", macdLine |-> macdLine, signalLine |-> signalLine,
                   histogram |-> Sub(macdLine, signalLine),
                   crossover |-> IF Less(signalLine, macdLine) THEN "bullish" ELSE "bearish"]

\* the square root is kept symbolic: upper and lower are middle +/- multiplier
\* times the root of variance; stddev < sma * 0.1 is decided on the squares
BollingerBands(closes, period, multiplier) ==
  IF ~closes.present \/ Len(closes.list) < period THEN Null
  ELSE LET sma == SMA(closes, period)
           window == SliceLast(closes.list, period)
           squares == [i \in 1..Len(window) |->
                         Mul(Sub(window[i], sma), Sub(window[i], sma))]
           variance == Div(Sum(squares), FromInt(period))
       IN [kind |-> "bands", middle |-> sma, multiplier |-> multiplier,
           variance |-> variance,
           squeeze |-> Less(FromInt(0), sma)
                       /\ Less(Mul(variance, FromInt(100)), Mul(sma, sma))]

\* weights 1..period over the last `period` values; with period 0 the weights
\* are empty, val * undefined is NaN and the weight sum is 0
WMA(values, period) ==
  IF ~values.present \/ Len(values.list) < period THEN Null
  ELSE IF period = 0 THEN NaN
  ELSE LET sliced == SliceLast(values.list, period)
           weighted == [i \in 1..Len(sliced) |-> Mul(sliced[i], FromInt(i))]
       IN Div(Sum(weighted), FromInt((period * (period + 1)) \div 2))

\* Math.floor(Math.sqrt(period))
FloorSqrt(period) ==
  CHOOSE r \in 0..period : r * r <= period /\ (r + 1) * (r + 1) > period

HMA(values, period) ==
  IF ~values.present \/ Len(values.list) < period THEN Null
  ELSE LET halfPeriod == period \div 2
           sqrtPeriod == FloorSqrt(period)
           rawHMA == [i \in 1..Len(values.list) |->
                        Sub(Mul(FromInt(2), WMA(Arr(Prefix(values.list, i)), halfPeriod)),
                            WMA(Arr(Prefix(values.list, i)), period))]
       IN WMA(Arr(SliceLast(rawHMA, sqrtPeriod)), sqrtPeriod)


(***************************************************************************)
(* calculateRequestedIndicators                                            *)
(***************************************************************************)
Digits == <<"0", "1", "2", "3", "4", "5", "6", "7", "8", "9">>

IsDigit(c) == \E i \in 1..Len(Digits) : Digits[i] = c

DigitValue(c) == (CHOOSE i \in 1..Len(Digits) : Digits[i] = c) - 1

\* the value of the leading run of digits
RECURSIVE ParseDigits(_, _)
ParseDigits(s, acc) ==
  IF s = <<>> \/ ~IsDigit(Head(s)) THEN acc
  ELSE ParseDigits(Tail(s), 10 * acc + DigitValue(Head(s)))

\* parseInt(s, 10): white space, an optional sign, digits; NaN without a digit
parseInt(s) ==
  LET t == trimStart(s)
      signed == t # <<>> /\ Head(t) \in {"-", "+"}
      u == IF signed THEN Tail(t) ELSE t
  IN IF u = <<>> \/ ~IsDigit(Head(u)) THEN NaN
     ELSE IF signed /\ Head(t) = "-" THEN FromInt(-ParseDigits(u, 0))
     ELSE FromInt(ParseDigits(u, 0))

\* parseFloat(s) of a candle field; the fields of the model carry no
\* fraction or exponent part
parseFloat(s) == parseInt(s)

\* s.replace(pattern, ''): the first occurrence is removed
replace(s, pattern) ==
  LET Occurs(i) == SubSeq(s, i, i + Len(pattern) - 1) = pattern
      starts == { i \in 1..(Len(s) - Len(pattern) + 1) : Occurs(i) }
  IN IF starts = {} THEN s
     ELSE LET first == CHOOSE i \in starts : \A j \in starts : i <= j
          IN SubSeq(s, 1, first - 1) \o SubSeq(s, first + Len(pattern), Len(s))

\* parseInt(...) || fallback: NaN and 0 give the fallback
PeriodOr(parsed, fallback) ==
  IF parsed.kind = "nan" \/ parsed.n = 0 THEN fallback ELSE parsed.n

RECURSIVE VWAPLoop(_, _, _, _, _)
VWAPLoop(ohlcv, i, cumVolume, cumPriceVolume, vwapArray) ==
  IF i > Len(ohlcv) THEN vwapArray
  ELSE LET candle == ohlcv[i]
           typicalPrice == Div(Add(Add(parseFloat(candle.high), parseFloat(candle.low)),
                                   parseFloat(candle.close)), FromInt(3))
           volume == Add(cumVolume, parseFloat(candle.volume))
           priceVolume == Add(cumPriceVolume, Mul(typicalPrice, parseFloat(candle.volume)))
       IN VWAPLoop(ohlcv, i + 1, volume, priceVolume,
                   Append(vwapArray, Div(priceVolume, volume)))

VWAP(ohlcv) ==
  [kind |-> "array", list |-> VWAPLoop(ohlcv, 1, FromInt(0), FromInt(0), <<>>)]

\* results[key] = value
SetResult(results, name, period, value) ==
  ([name |-> name, period |-> period] :> value) @@ results

\* the body of the loop for one requested name; a name that is not a string
\* throws inside the try and the catch leaves results alone
OneIndicator(klines, closes, indicator, results) ==
  IF ~indicator.string THEN results
  ELSE LET upperIndicator == toUpperCase(indicator.text)
           PeriodOf(family, fallback) ==
             PeriodOr(parseInt(replace(upperIndicator, family)), fallback)
       IN IF startsWith(upperIndicator, <<"S", "M", "A">>)
            THEN LET period == PeriodOf(<<"S", "M", "A">>, 20)
                 IN SetResult(results, "sma", period, SMA(closes, period))
          ELSE IF startsWith(upperIndicator, <<"E", "M", "A">>)
            THEN LET period == PeriodOf(<<"E", "M", "A">>, 12)
                 IN SetResult(results, "ema", period, EMA(closes, period))
          ELSE IF startsWith(upperIndicator, <<"R", "S", "I">>)
            THEN LET period == PeriodOf(<<"R", "S", "I">>, 14)
                 IN SetResult(results, "rsi", period, RSI(closes, period))
          ELSE IF upperIndicator = <<"M", "A", "C", "D">>
            THEN SetResult(results, "macd", 0, MACD(closes, 12, 26, 9))
          ELSE IF upperIndicator = <<"V", "W", "A", "P">>
            THEN SetResult(results, "vwap", 0, VWAP(klines))
          ELSE IF upperIndicator = <<"B","O","L","L","I","N","G","E","R","B","A","N","D","S">>
                  \/ upperIndicator = <<"B","O","L","L","I","N","G","E","R"," ","B","A","N","D","S">>
            THEN SetResult(results, "bollingerBands", 0, BollingerBands(closes, 20, 2))
          ELSE IF startsWith(upperIndicator, <<"H", "M", "A">>)
            THEN LET period == PeriodOf(<<"H", "M", "A">>, 9)
                 IN SetResult(results, "hma", period, HMA(closes, period))
          ELSE results

\* variant: one try around the whole loop; the first name that throws ends it
RECURSIVE IndicatorLoop_StopsAtFailure(_, _, _, _, _)
IndicatorLoop_StopsAtFailure(klines, closes, indicatorNames, i, results) ==
  IF i > Len(indicatorNames) \/ ~indicatorNames[i].string THEN results
  ELSE IndicatorLoop_StopsAtFailure(klines, closes, indicatorNames, i + 1,
                      OneIndicator(klines, closes, indicatorNames[i], results))

\* for (const indicator of indicatorNames)
RECURSIVE IndicatorLoop(_, _, _, _, _)
IndicatorLoop(klines, closes, indicatorNames, i, results) ==
  IF i > Len(indicatorNames) THEN results
  ELSE IndicatorLoop(klines, closes, indicatorNames, i + 1,
                     OneIndicator(klines, closes, indicatorNames[i], results))

calculateRequestedIndicators(klineData, indicatorNames) ==
  LET klines == Reverse(klineData)
      closes == [i \in 1..Len(klines) |->
                   LET close == parseFloat(klines[i].close)
                   IN IF close.kind = "nan" \/ close.n = 0 THEN FromInt(0) ELSE close]
  IN IndicatorLoop(klines, Arr(closes), indicatorNames, 1, <<>>)

(***************************************************************************)
(* SpecIndicators: one call of a function of the indicator library         *)
(***************************************************************************)
MaxLen == 4

MaxNames == 2

MaxKlines == 3

Prices == {1, 2, 3}

\* price series of up to MaxLen closes, and a missing series
SeriesInputs ==
  { Arr([i \in 1..Len(l) |-> FromInt(l[i])]) : l \in SeqsUpTo(Prices, MaxLen) }
    \cup {Missing}

\* fifteen closes: rising, flat, and rising with one falling step
RisingCloses == [i \in 1..15 |-> FromInt(100 + i)]

FlatCloses == [i \in 1..15 |-> FromInt(100)]

DippingCloses == [i \in 1..15 |-> FromInt(IF i = 8 THEN 100 ELSE 100 + i)]

LongSeries == {Arr(RisingCloses), Arr(FlatCloses), Arr(DippingCloses)}

Periods == 1..MaxLen

\* candles [ , , high, low, close, volume] as the exchange sends them: strings
Candles ==
  { [high |-> <<"3">>, low |-> <<"1">>, close |-> <<"2">>, volume |-> <<"1">>],
    [high |-> <<"1">>, low |-> <<"1">>, close |-> <<"x">>, volume |-> <<"0">>] }

KlineInputs == SeqsUpTo(Candles, MaxKlines)

StringName(text) == [string |-> TRUE, text |-> text]

\* a list entry that is not a string (null, a number)
NotAString == [string |-> FALSE, text |-> <<>>]

RequestedNames ==
  { StringName(<<"s", "m", "a", "2">>), StringName(<<"S", "M", "A">>),
    StringName(<<"E", "M", "A", "2">>), StringName(<<"R", "S", "I", "2">>),
    StringName(<<"M", "A", "C", "D">>), StringName(<<"V", "W", "A", "P">>),
    StringName(<<"H", "M", "A", "2">>),
    StringName(<<"b","o","l","l","i","n","g","e","r","b","a","n","d","s">>),
    StringName(<<"F", "O", "O">>), NotAString }

NameLists == SeqsUpTo(RequestedNames, MaxNames)

IndicatorCall(fn, values, period) ==
  [fn |-> fn, state |-> "called", values |-> values, period |-> period,
   slowPeriod |-> 0, signalPeriod |-> 0, klineData |-> <<>>,
   indicatorNames |-> <<>>, returned |-> Null]

SeriesFunctions == {"SMA", "EMA", "RSI", "BollingerBands", "HMA", "WMA"}

IndicatorCalls ==
  { IndicatorCall(fn, values, period) :
      fn \in SeriesFunctions, values \in SeriesInputs, period \in Periods }
  \cup { IndicatorCall("RSI", values, 14) : values \in LongSeries }
  \cup { [IndicatorCall("MACD", values, fast) EXCEPT !.slowPeriod = slow,
                                                      !.signalPeriod = signal] :
           values \in SeriesInputs, fast \in 1..2, slow \in 2..3, signal \in 1..2 }
  \cup { [IndicatorCall("VWAP", Missing, 0) EXCEPT !.klineData = klineData] :
           klineData \in KlineInputs }
  \cup { [IndicatorCall("calculateRequestedIndicators", Missing, 0)
            EXCEPT !.klineData = klineData, !.indicatorNames = names] :
           klineData \in KlineInputs, names \in NameLists }

InitIndicators ==
  /\ memoryEnabled = FALSE
  /\ chatMessages = <<>>
  /\ chatMemory = NoChatMemory
  /\ providers = [p \in ProviderNames |-> FALSE]
  /\ probe = AllPending
  /\ initialized = FALSE
  /\ pc = "idle"
  /\ req = NoRequest
  /\ plan = NoPlan
  /\ agg = NewAggregatedData
  /\ cursor = 0
  /\ calls = NoCalls
  /\ result = NoResult
  /\ peer = NoPeer
  /\ indicatorCall \in IndicatorCalls

\* the call of fn returns value
Returns(fn, value) ==
  /\ indicatorCall.fn = fn
  /\ indicatorCall.state = "called"
  /\ indicatorCall' = [indicatorCall EXCEPT !.state = "returned", !.returned = value]
  /\ UNCHANGED << memoryEnabled, chatMessages, chatMemory, providers, probe,
                  initialized, pc, req, plan, agg, cursor, calls, result, peer >>

CallSMA == Returns("SMA", SMA(indicatorCall.values, indicatorCall.period))

CallEMA == Returns("EMA", EMA(indicatorCall.values, indicatorCall.period))

CallRSI == Returns("RSI", RSI(indicatorCall.values, indicatorCall.period))

CallMACD ==
  Returns("MACD", MACD(indicatorCall.values, indicatorCall.period,
                       indicatorCall.slowPeriod, indicatorCall.signalPeriod))

CallBollingerBands ==
  Returns("BollingerBands", BollingerBands(indicatorCall.values, indicatorCall.period, 2))

CallHMA == Returns("HMA", HMA(indicatorCall.values, indicatorCall.period))

CallWMA == Returns("WMA", WMA(indicatorCall.values, indicatorCall.period))

CallVWAP == Returns("VWAP", VWAP(indicatorCall.klineData))

CallCalculateRequestedIndicators ==
  Returns("calculateRequestedIndicators",
          calculateRequestedIndicators(indicatorCall.klineData,
                                       indicatorCall.indicatorNames))

NextIndicators ==
  \/ CallSMA
  \/ CallEMA
  \/ CallRSI
  \/ CallMACD
  \/ CallBollingerBands
  \/ CallHMA
  \/ CallWMA
  \/ CallVWAP
  \/ CallCalculateRequestedIndicators

SpecIndicators == InitIndicators /\ [][NextIndicators]_vars


(***************************************************************************)
(* Properties                                                              *)
(***************************************************************************)
SourcesOfType(type) == SelectSeq(agg.sources, LAMBDA s : s.type = type)

\* the call has gone past the named step of the aggregation
PastBybit ==
  \/ pc \in {"live", "web", "webQuery", "indicators", "score", "final", "memory"}
  \/ pc \in {"done", "thrown"} /\ calls.final > 0

PastLivePrice ==
  \/ pc \in {"web", "webQuery", "indicators", "score", "final", "memory"}
  \/ pc \in {"done", "thrown"} /\ calls.final > 0

PastWebSearch ==
  \/ pc \in {"indicators", "score", "final", "memory"}
  \/ pc \in {"done", "thrown"} /\ calls.final > 0

PastIndicators ==
  \/ pc \in {"score", "final", "memory"}
  \/ pc \in {"done", "thrown"} /\ calls.final > 0

IsFailedTickerFetch(s) ==
  s.type = "bybit" /\ s.status = "failed" /\ includes(s.resource, dt_tickers)

\* C1: during aggregation every failed primary fetch of a ticker-class entry
\* is followed by exactly one additional 'fallback' SourceResult, whatever the
\* fallback pool answered (checked whenever no fallback lookup is in flight)
C1_OneFallbackSourcePerFailedTicker ==
  pc \notin {"fallback", "thrown"} =>
    /\ \A i \in 1..Len(agg.sources) :
         IsFailedTickerFetch(agg.sources[i]) =>
           i < Len(agg.sources) /\ agg.sources[i + 1].type = "fallback"
    /\ Len(SourcesOfType("fallback")) = Len(SelectSeq(agg.sources, IsFailedTickerFetch))

\* attempts made by the aggregation so far: market entries handled, fallback
\* lookups, live-price lookups, web searches, indicator computations
Attempts ==
  Len(SourcesOfType("bybit")) + Len(calls.fallback) + calls.livePrice
  + Len(calls.web) + calls.indicators

\* C3: for every non-casual plan and every combination of step failures the
\* aggregation reaches confidence scoring without throwing, with a
\* SourceResult for every attempt
C3_AggregationNeverAborts ==
  /\ ~(pc = "thrown" /\ calls.final = 0)
  /\ pc = "score" => Len(agg.sources) = Attempts

\* C4: a requested live price is looked up exactly once and leaves exactly one
\* 'live_price' SourceResult, success when a price was obtained and failed
\* when it was not
C4_OneLivePriceSource ==
  (PastLivePrice /\ requiredData.livePrice) =>
    /\ calls.livePrice = 1
    /\ Len(SourcesOfType("live_price")) = 1
    /\ SourcesOfType("live_price")[1].status =
         (IF agg.livePrice THEN "success" ELSE "failed")

\* C5: handleUserQuery never propagates an exception to its caller
C5_NeverThrows ==
  result.kind # "thrown"

WebSourceQueries ==
  [i \in 1..Len(SourcesOfType("web")) |-> SourcesOfType("web")[i].resource]

\* what has been searched and recorded at each point of the web step
C2_WebLog ==
  /\ pc = "webQuery" =>
       /\ calls.web = SubSeq(requiredData.webSearch, 1, cursor - 1)
       /\ WebSourceQueries = calls.web
  /\ (PastWebSearch /\ requiredData.webSearchIsArray) =>
       /\ calls.web = requiredData.webSearch
       /\ WebSourceQueries = requiredData.webSearch
  /\ (PastWebSearch /\ ~requiredData.webSearchIsArray) =>
       /\ calls.web = <<>>
       /\ WebSourceQueries = <<>>

\* the web step only moves on to its next query or to the indicator step,
\* which only moves on to scoring, which only moves on to the final analysis
C2_WebStep ==
  /\ pc = "webQuery" =>
       IF cursor <= Len(requiredData.webSearch)
         THEN pc' = "webQuery" /\ cursor' = cursor + 1
         ELSE pc' = "indicators"
  /\ pc = "indicators" => pc' = "score"
  /\ pc = "score" => pc' = "final"

\* C2: every query of requiredData.webSearch is attempted exactly once, in
\* plan order, and leaves exactly one 'web' SourceResult; a search that fails
\* never keeps the later queries, the indicator step or scoring from running
C2_WebSearchIsolated ==
  []C2_WebLog /\ [][C2_WebStep]_vars

\* a first search without results, a second one that ran, and a scored result
C2_Witness ==
  /\ pc = "done"
  /\ result.isAnalysis
  /\ Len(agg.webContent) = 2
  /\ agg.webContent[1].content = NoWebResults
  /\ agg.webContent[2].content = WebContext
  /\ result.confidenceScore >= 50

NothingFetched ==
  /\ calls.bybit = <<>>
  /\ calls.fallback = <<>>
  /\ calls.providers = <<>>
  /\ calls.livePrice = 0
  /\ calls.web = <<>>
  /\ calls.indicators = 0
  /\ calls.final = 0
  /\ calls.summary = 0
  /\ calls.memoryWrites = 0
  /\ agg = NewAggregatedData
  /\ chatMemory = NoChatMemory

\* C8: a casual plan is answered with {isAnalysis: false, response:
\* plan.response} and nothing is fetched, computed, summarized or written to
\* memory, whatever data-fetch fields the plan carries
C8_CasualPlanFetchesNothing ==
  plan.isCasual =>
    /\ pc \in {"planned", "done"}
    /\ NothingFetched
    /\ pc = "done" =>
         result = [NoResult EXCEPT !.kind = "returned", !.isAnalysis = FALSE,
                                   !.response = plan.response]

C8_Witness ==
  /\ pc = "done"
  /\ plan = plan_casual_with_data
  /\ result.response = OracleCasualResponse
  /\ ~result.isAnalysis

\* the phrasings of the claim, matched on the lowered and trimmed query
MatchesLastQuestionPhrasing(query) ==
  trim(toLowerCase(query)) \in lastQuestionPhrases

UserTurns == SelectSeq(chatMessages, IsUserMessage)

\* C10: a "what did I ask" query with a chat id and memory bypasses planning
\* and every fetch and returns isAnalysis = false, quoting the second most
\* recent stored user message, or the 'no previous question' text when fewer
\* than two user messages are stored
C10_LastQuestionAnswered ==
  (pc \notin {"idle", "enter"} /\ req.chatId /\ memoryEnabled
     /\ MatchesLastQuestionPhrasing(req.userQuery)) =>
    /\ pc = "done"
    /\ result.kind = "returned"
    /\ ~result.isAnalysis
    /\ calls.planner = "none" /\ calls.oracle = 0 /\ plan = NoPlan
    /\ NothingFetched
    /\ result.response =
         (IF Len(UserTurns) >= 2
            THEN PreviousQuestion(UserTurns[Len(UserTurns) - 1].content)
            ELSE NoPreviousQuestion)

C10_Witness ==
  /\ pc = "done"
  /\ req.userQuery = q_What_did_I_ask
  /\ chatMessages = <<UserMessage(q_whats_ETH_price), AiMessage(FinalAnalysisText),
                      UserMessage(q_analyze_BTC)>>
  /\ result.response = PreviousQuestion(q_whats_ETH_price)
  /\ ~result.isAnalysis

\* the two shapes the planning prompt allows
IsValidPlanShape(p) ==
  \/ p.isCasual /\ p.response # NoResponse
  \/ ~p.isCasual /\ p.hasRequiredData

\* C6: after an oracle call the plan in use is either a well-shaped oracle
\* answer or the plan of the deterministic fallback planner; a malformed
\* answer is never the plan
C6_MalformedPlanNeverUsed ==
  (pc = "planned" /\ calls.oracle > 0) =>
    \/ calls.planner = "oracle" /\ IsValidPlanShape(plan)
    \/ plan = createFallbackPlan(req.userQuery)

FillerPhrases ==
  { <<"h","i">>, <<"h","e","l","l","o">>, <<"t","h","a","n","k","s">>,
    <<"t","h","a","n","k"," ","y","o","u">>, <<"h","e","y">>,
    <<"g","o","o","d"," ","m","o","r","n","i","n","g">>,
    <<"g","o","o","d"," ","e","v","e","n","i","n","g">> }

\* exactly a filler phrase: case-insensitive, trimmed, optionally with '!'
IsFillerQuery(query) ==
  LET t == trim(toLowerCase(query)) IN
  \/ t \in FillerPhrases
  \/ Len(t) > 0 /\ t[Len(t)] = "!" /\ SubSeq(t, 1, Len(t) - 1) \in FillerPhrases

\* C7: a filler query planned with no recent turns is classified casual with
\* zero oracle calls; with recent turns, or for any other query, the planner
\* calls the oracle exactly once
C7_CasualShortcutSkipsOracle ==
  (pc \in {"planned", "done"} /\ calls.planner # "none") =>
    IF Len(req.recent) = 0 /\ IsFillerQuery(req.userQuery)
      THEN plan.isCasual /\ calls.oracle = 0
      ELSE calls.oracle = 1

C7_Witness ==
  /\ pc = "planned"
  /\ req.userQuery = <<" ","H","e","l","l","o","!"," ">>
  /\ req.recent = <<>>
  /\ plan = CasualShortcutPlan
  /\ calls.oracle = 0

\* symbols of the btc/eth/sol table named in the query
NamedSymbols(query) ==
  LET l == toLowerCase(query) IN
  (IF includes(l, <<"b","t","c">>) \/ includes(l, <<"b","i","t","c","o","i","n">>)
     THEN {BTCUSDT} ELSE {})
  \cup (IF includes(l, <<"e","t","h">>) \/ includes(l, <<"e","t","h","e","r","e","u","m">>)
          THEN {ETHUSDT} ELSE {})
  \cup (IF includes(l, <<"s","o","l">>) \/ includes(l, <<"s","o","l","a","n","a">>)
          THEN {SOLUSDT} ELSE {})

HasEntry(bybit, dataType) ==
  \E i \in 1..Len(bybit) : bybit[i].dataType = dataType /\ ~bybit[i].paramsNull

\* C9: the fallback planner answers without any external call with a
\* non-casual plan picked by intent: 'price' or 'cost' gives a tickers entry
\* and livePrice = true; otherwise 'analysis' or 'technical' gives kline and
\* indicators; otherwise a generic web search; the symbol comes from the
\* btc/eth/sol table and defaults to BTCUSDT
C9_FallbackPlanByIntent ==
  (pc = "planned" /\ calls.planner = "fallback") =>
    LET rd == plan.requiredData
        l == toLowerCase(req.userQuery)
        named == NamedSymbols(req.userQuery)
    IN /\ ~plan.isCasual /\ plan.hasRequiredData
       /\ calls.oracle = 1 /\ NothingFetched
       /\ \A i \in 1..Len(rd.bybit) :
            IF named = {} THEN rd.bybit[i].symbol = BTCUSDT
                          ELSE rd.bybit[i].symbol \in named
       /\ IF includes(l, kw_price) \/ includes(l, kw_cost)
            THEN HasEntry(rd.bybit, dt_tickers) /\ rd.livePrice
          ELSE IF includes(l, kw_analysis) \/ includes(l, kw_technical)
            THEN HasEntry(rd.bybit, dt_kline) /\ rd.technicalIndicators # <<>>
          ELSE /\ rd.webSearchIsArray
               /\ rd.webSearch = <<req.userQuery \o sfx_cryptocurrency>>
               /\ ~HasEntry(rd.bybit, dt_kline)
               /\ rd.technicalIndicators = <<>>
               /\ ~rd.livePrice

C9_Witness ==
  /\ pc = "planned"
  /\ calls.planner = "fallback"
  /\ req.userQuery = q_Bitcoin_price
  /\ plan.requiredData.bybit = <<BybitEntry(dt_tickers, BTCUSDT)>>
  /\ plan.requiredData.livePrice

\* C11: getUniversalData queries the providers strictly in ascending priority
\* order, never an inactive one, stops at the first one that returns data and
\* returns that data alone
C11_PriorityWalk ==
  [][ calls' # calls =>
        LET symbol == calls'.fallback[1]
            L == calls'.providers
            eligible == IF initialized THEN { p \in mapping(symbol) : providers[p] } ELSE {}
            answeredAt == { i \in 1..Len(L) : L[i].answered }
        IN /\ \A i \in 1..Len(L), j \in 1..Len(L) :
                i < j => priority[L[i].provider] < priority[L[j].provider]
           /\ \A i \in 1..Len(L) : L[i].provider \in eligible
           /\ answeredAt \subseteq {Len(L)}
           /\ agg'.fallbackTickers =
                (IF answeredAt = {} THEN NoData ELSE L[Len(L)].provider)
           /\ \A p \in eligible :
                (answeredAt = {} \/ priority[p] < priority[L[Len(L)].provider]) =>
                  \E i \in 1..Len(L) : L[i].provider = p
    ]_vars

\* P1 inactive, P2 and P3 active: P2 answered, P3 was not queried
C11_Witness ==
  /\ initialized
  /\ ~providers["binance"] /\ providers["coinbase"] /\ providers["coingecko"]
  /\ calls.providers = <<ProviderQuery("coinbase", TRUE)>>
  /\ agg.fallbackTickers = "coinbase"

\* C12: when every active provider fails, or the symbol has no mapping, the
\* pool answers null without throwing, a provider without a mapping for the
\* symbol is not queried, and the aggregation goes on with the next plan step
C12_NullIsNotFatal ==
  [][ pc = "fallback" =>
        LET symbol == FallbackSymbol
            new == SubSeq(calls'.providers, Len(calls.providers) + 1, Len(calls'.providers))
            answered == \E i \in 1..Len(new) : new[i].answered
        IN /\ pc' = "bybit" /\ cursor' = cursor + 1
           /\ result'.kind # "thrown"
           /\ \A i \in 1..Len(new) : new[i].provider \in mapping(symbol)
           /\ mapping(symbol) = {} => new = <<>>
           /\ ~answered => agg' = agg
           /\ answered => agg'.fallbackTickers = new[Len(new)].provider
    ]_vars

\* every active provider was asked and failed, and the analysis was returned
C12_Witness ==
  /\ pc = "done"
  /\ result.isAnalysis
  /\ Len(calls.fallback) = 1
  /\ Len(calls.providers) >= 2
  /\ \A i \in 1..Len(calls.providers) : ~calls.providers[i].answered
  /\ SourcesOfType("fallback") = <<>>

SuccessCount == Len(SelectSeq(agg.sources, IsSuccess))

\* whole-number bonuses of the score
Bonuses ==
  (IF agg.livePrice THEN 10 ELSE 0) + (IF agg.enhancedIndicators THEN 10 ELSE 0)
  + (IF agg.hasWebContent /\ Len(agg.webContent) > 0 THEN 5 ELSE 0)

\* C13: the score is an integer in [0,100] and, with the number of sources
\* and the bonuses fixed, does not decrease when one more source succeeds
C13_ScoreBoundedMonotone ==
  pc = "final" =>
    /\ agg.confidenceScore \in 0..100
    /\ \A i \in 1..Len(agg.sources) :
         agg.sources[i].status = "failed" =>
           calculateConfidenceScore([agg EXCEPT !.sources[i].status = "success"])
             >= agg.confidenceScore

\* every bonus and every source successful: 105 clamped to 100
C13_Witness ==
  /\ pc = "final"
  /\ Len(agg.sources) = 3 /\ SuccessCount = 3
  /\ Bonuses = 25
  /\ agg.confidenceScore = 100

\* C14: the score is 50 + 30 * successCount / totalCount (when totalCount > 0)
\* + the bonuses, rounded to a nearest integer and clamped to [0,100]; x being
\* that sum, r is a nearest integer when 2*total*|x - r| <= total
C14_ScoreFormula ==
  pc = "final" =>
    LET t == Len(agg.sources)
        s == SuccessCount
    IN IF t = 0
         THEN agg.confidenceScore = Min(Max(50 + Bonuses, 0), 100)
         ELSE \E r \in 0..200 :
                /\ 2 * (t * (50 + Bonuses) + 30 * s) - 2 * t * r <= t
                /\ 2 * t * r - 2 * (t * (50 + Bonuses) + 30 * s) <= t
                /\ agg.confidenceScore = Min(Max(r, 0), 100)

\* 2 of 7 sources successful, no bonus: 50 + 8.57 rounds to 59
C14_Witness ==
  /\ pc = "final"
  /\ Len(agg.sources) = 7 /\ SuccessCount = 2
  /\ Bonuses = 0
  /\ agg.confidenceScore = 59

\* C16: a transport-level failure of a web search is recorded as a 'web'
\* SourceResult with status failed and adds no entry to webContent
C16_TransportFailureRecorded ==
  /\ \A i \in 1..Len(calls.webOutcomes) :
       calls.webOutcomes[i] = "error" => SourcesOfType("web")[i].status = "failed"
  /\ Len(agg.webContent) =
       Cardinality({ i \in 1..Len(calls.webOutcomes) : calls.webOutcomes[i] # "error" })

\* every fetch made for the request failed: no market entry was fetched, no
\* fallback data, no live price and no indicator came back, every web search
\* ended in a transport failure
AllSourcesFailed ==
  /\ Attempts > 0
  /\ \A i \in 1..Len(SourcesOfType("bybit")) : SourcesOfType("bybit")[i].status = "failed"
  /\ agg.fallbackTickers = NoData
  /\ ~agg.livePrice
  /\ \A i \in 1..Len(calls.webOutcomes) : calls.webOutcomes[i] = "error"
  /\ ~agg.enhancedIndicators

\* C15: when every source attempted fails the request still returns its
\* result, with confidence score 50 and a dataSources list holding the failed
\* entries
C15_AllFailedScoresFifty ==
  (pc = "done" /\ result.isAnalysis /\ AllSourcesFailed) =>
    /\ result.confidenceScore = 50
    /\ Len(result.dataSources) = Attempts
    /\ \A i \in 1..Len(result.dataSources) : result.dataSources[i].status = "failed"

\* the number of values below which a function of the library has too little
\* data
RequiredLength(call) ==
  CASE call.fn = "RSI" -> call.period + 1
    [] call.fn = "MACD" -> call.slowPeriod + call.signalPeriod
    [] OTHER -> call.period

InsufficientData(call) ==
  \/ ~call.values.present
  \/ Len(call.values.list) < RequiredLength(call)

\* C17: SMA, EMA, WMA, HMA and BollingerBands called with fewer than period
\* values, RSI with fewer than period + 1, MACD with fewer than slow + signal,
\* and each of them called without a series, return null (and do return).
C17_InsufficientDataIsNull ==
  ( /\ indicatorCall.fn \in SeriesFunctions \cup {"MACD"}
    /\ indicatorCall.state = "returned"
    /\ InsufficientData(indicatorCall) )
  => indicatorCall.returned = Null

\* RSI was called with exactly period closes, one fewer than it needs, and
\* returned null
C17_Witness ==
  /\ indicatorCall.fn = "RSI"
  /\ indicatorCall.state = "returned"
  /\ indicatorCall.values.present
  /\ Len(indicatorCall.values.list) = indicatorCall.period
  /\ indicatorCall.returned = Null

\* what the list's name would give if it were the only one requested
RequestedAlone(call, i) ==
  calculateRequestedIndicators(call.klineData, << call.indicatorNames[i] >>)

Unrecognised(name) == name \in {StringName(<<"F", "O", "O">>), NotAString}

\* C18: in the output of calculateRequestedIndicators every name of the list
\* contributes exactly what it contributes when requested alone, whatever
\* the other names are: the keys are those of the single requests, each with
\* the same value; a name that is unknown or not a string adds no key; and
\* SMA with its default period of 20, for which the klines are too few, is
\* present with the value null.
C18_NamesAreIsolated ==
  ( /\ indicatorCall.fn = "calculateRequestedIndicators"
    /\ indicatorCall.state = "returned" )
  => LET names == indicatorCall.indicatorNames
         results == indicatorCall.returned
         alone == [i \in 1..Len(names) |-> RequestedAlone(indicatorCall, i)]
         sma20 == [name |-> "sma", period |-> 20]
     IN /\ DOMAIN results = UNION { DOMAIN alone[i] : i \in 1..Len(names) }
        /\ \A i \in 1..Len(names) :
             \A key \in DOMAIN alone[i] : results[key] = alone[i][key]
        /\ \A i \in 1..Len(names) :
             Unrecognised(names[i]) => DOMAIN alone[i] = {}
        /\ \A i \in 1..Len(names) :
             names[i] = StringName(<<"S", "M", "A">>)
               => sma20 \in DOMAIN results /\ results[sma20] = Null

\* a list whose first entry is not a string and whose second is sma2, over
\* at least two klines: the output holds a number under sma2
C18_Witness ==
  /\ indicatorCall.fn = "calculateRequestedIndicators"
  /\ indicatorCall.state = "returned"
  /\ Len(indicatorCall.indicatorNames) = 2
  /\ indicatorCall.indicatorNames[1] = NotAString
  /\ indicatorCall.indicatorNames[2] = StringName(<<"s", "m", "a", "2">>)
  /\ [name |-> "sma", period |-> 2] \in DOMAIN indicatorCall.returned
  /\ indicatorCall.returned[[name |-> "sma", period |-> 2]].kind = "num"

\* no step of the last `period` changes is a fall
NoLossInWindow(list, period) ==
  \A i \in (Len(list) - period + 1)..Len(list) : ~Less(list[i], list[i - 1])

C20_MemoryOracleFailureNotFatal ==
  [][ (pc = "memory" /\ calls'.oracleFailures # {})
      => /\ pc' = "done"
         /\ result'.kind = "returned"
         /\ result'.isAnalysis
         /\ result'.response = FinalAnalysisText
         /\ result'.dataSources = agg.sources
         /\ result'.confidenceScore = agg.confidenceScore
         /\ "summary" \in calls'.oracleFailures
              => chatMemory' = chatMemory \/ chatMemory'.summary = NoText
         /\ "facts" \in calls'.oracleFailures
              => chatMemory'.facts = chatMemory.facts ]_vars

\* both oracle calls of the memory update failed, the empty summary was
\* stored and the call returned its result
C20_Witness ==
  /\ pc = "done"
  /\ calls.oracleFailures = {"summary", "facts"}
  /\ calls.memoryWrites = 1
  /\ chatMemory.summary = NoText
  /\ result.kind = "returned"
  /\ result.response = FinalAnalysisText

\* C21: every call of handleUserQuery that has started returns or throws,
\* also when a provider never answers.
C21_EveryCallCompletes ==
  (pc = "enter") ~> (pc \in {"done", "thrown"})

\* the market step recorded a successful fetch of the price series
KlineObtained ==
  \E i \in 1..Len(agg.sources) :
    agg.sources[i] = Source("bybit", dt_kline, "success")

\* C22: with an empty list of requested indicators, or without a price
\* series obtained in the market step, no indicator values are set, no
\* 'calculation' source is recorded and the score has no indicator bonus.
C22_IndicatorStepGuard ==
  (Len(requiredData.technicalIndicators) = 0 \/ ~KlineObtained)
  => /\ ~agg.enhancedIndicators
     /\ SourcesOfType("calculation") = <<>>
     /\ agg.confidenceScore # -1
          => agg.confidenceScore
               = calculateConfidenceScore([agg EXCEPT !.enhancedIndicators = FALSE])

\* a step in which tryFallbackData is called
FallbackInvoked == pc # "idle" /\ calls'.fallback # calls.fallback

\* the step that calls tryFallbackData is the one in which the fetch of the
\* market entry under the cursor failed: the failed 'bybit' source of that
\* entry is recorded, the lookup is for that entry's symbol, and the next
\* entry waits for it
AfterFailedFetchOfEntry ==
  /\ pc = "bybit"
  /\ cursor <= Len(requiredData.bybit)
  /\ LET entry == requiredData.bybit[cursor]
     IN /\ calls'.fallback = Append(calls.fallback, entry.symbol)
        /\ agg'.sources = Append(agg.sources, Source("bybit", entry.dataType, "failed"))
  /\ pc' = "fallback"
  /\ cursor' = cursor

\* C23 (amended): tryFallbackData is called only in the step in which the
\* fetch of a market entry whose data type name contains 'tickers' has
\* failed, for that entry's symbol; never after a success, never before the
\* outcome, never for a type whose name does not contain 'tickers'.
C23_FallbackOnlyAfterTickerFailure ==
  [][ FallbackInvoked
      => /\ AfterFailedFetchOfEntry
         /\ includes(requiredData.bybit[cursor].dataType, dt_tickers) ]_vars

\* the fallback lookup is in flight for the unsupported type 'spottickers',
\* whose fetch failed without a request to the exchange
C23_Witness ==
  /\ pc = "fallback"
  /\ requiredData.bybit[cursor].dataType = dt_spotTickers
  /\ calls.fallback = <<DOGEUSDT>>
  /\ agg.sources[Len(agg.sources)] = Source("bybit", dt_spotTickers, "failed")

\* C23 as stated: the fallback is called only after the failure of the
\* 'tickers' fetch, never for an unsupported data type.
C23_FallbackOnlyForTickers ==
  [][ FallbackInvoked
      => /\ AfterFailedFetchOfEntry
         /\ requiredData.bybit[cursor].dataType = dt_tickers ]_vars

\* C24: a provider's flag changes only in the step in which its own start-up
\* probe settles, and then from inactive to active; no step of a request
\* (no position, call log or aggregated data changes with it), and no step
\* after initialization has completed, changes a flag; an active provider
\* stays active.
C24_FlagsSetOnlyByProbes ==
  [][ /\ \A p \in ProviderNames :
           /\ providers[p] => providers'[p]
           /\ providers'[p] # providers[p]
                => probe[p] = "pending" /\ probe'[p] = "settled"
      /\ providers' # providers => UNCHANGED << pc, calls, agg, req >>
      /\ probe = AllJoined => providers' = providers ]_vars

\* after initialization a request asked the active binance, which returned
\* null, and completed: binance is still active, coinbase still inactive
C24_Witness ==
  /\ probe = AllJoined
  /\ initialized
  /\ providers["binance"] /\ ~providers["coinbase"]
  /\ pc = "done"
  /\ ProviderQuery("binance", FALSE) \in Range(calls.providers)

\* C25, on the states of a request: upsertChatMemory is called at most
\* once, and only after the final analysis of a non-casual plan was
\* produced; a call that returned without analysis (last-question and casual
\* paths) has made no memory update; once planning has begun the memory
\* reads of the request have all been made.
C25_MemoryWriteState ==
  /\ calls.memoryWrites <= 1
  /\ calls.memoryWrites = 1
       => /\ calls.final = 1
          /\ req.finalResponse = FinalAnalysisText
          /\ ~plan.isCasual
          /\ ~TakesLastQuestionPath
          /\ memoryEnabled /\ req.chatId
  /\ (result.kind = "returned" /\ ~result.isAnalysis)
       => calls.memoryWrites = 0 /\ chatMemory = NoChatMemory
  /\ calls.planner # "none"
       => calls.memoryReads = IF memoryEnabled /\ req.chatId THEN 1 ELSE 0

\* C25: the memory reads precede planning, the memory write follows the final
\* analysis, and the step of the memory update returns the analysis result
\* built from the aggregated data whether the upsert succeeded or failed.
C25_MemoryWriteOrder ==
  [][ /\ calls'.memoryReads # calls.memoryReads
           => pc = "enter" /\ calls.planner = "none" /\ calls'.planner = "none"
      /\ (pc # "idle" /\ calls'.memoryWrites # calls.memoryWrites)
           => /\ pc = "memory"
              /\ calls.final = 1
              /\ result'.kind = "returned"
              /\ result'.isAnalysis
              /\ result'.response = FinalAnalysisText
              /\ result'.dataSources = agg.sources
              /\ result'.hasLivePrice = agg.livePrice
              /\ result'.confidenceScore = agg.confidenceScore
      /\ (pc # "idle" /\ chatMemory' # chatMemory)
           => calls'.memoryWrites = calls.memoryWrites + 1 /\ ~calls'.upsertFailed
    ]_vars /\ []C25_MemoryWriteState

\* the upsert of the request failed and the analysis result was returned
C25_Witness ==
  /\ pc = "done"
  /\ calls.memoryWrites = 1
  /\ calls.upsertFailed
  /\ chatMemory = NoChatMemory
  /\ result.kind = "returned"
  /\ result.isAnalysis
  /\ result.response = FinalAnalysisText

\* the aggregated data of the running call hold what its own plan and its own
\* fetches put there: nothing before the aggregation begins; one 'bybit'
\* source per market entry of its plan handled so far, in plan order; one
\* 'web' source per query of its plan searched so far; no more fallback and
\* live-price sources than lookups it made; and the result it returns carries
\* these sources and the score computed from them
OwnAggregatedData ==
  LET bybit == SourcesOfType("bybit") IN
  /\ pc \in {"idle", "enter", "plan", "planned"} => agg = NewAggregatedData
  /\ Len(bybit) <= Len(requiredData.bybit)
  /\ \A i \in 1..Len(bybit) : bybit[i].resource = requiredData.bybit[i].dataType
  /\ pc = "bybit" => Len(bybit) = cursor - 1
  /\ pc = "fallback" => Len(bybit) = cursor
  /\ PastBybit => Len(bybit) = Len(requiredData.bybit)
  /\ C2_WebLog
  /\ Len(SourcesOfType("fallback")) <= Len(calls.fallback)
  /\ Len(SourcesOfType("live_price")) <= calls.livePrice
  /\ Len(SourcesOfType("calculation")) <= calls.indicators
  /\ (result.kind = "returned" /\ result.isAnalysis)
       => /\ result.dataSources = agg.sources
          /\ result.confidenceScore = agg.confidenceScore
          /\ agg.confidenceScore
               = calculateConfidenceScore([agg EXCEPT !.confidenceScore = -1])

\* C26: with two calls interleaved at any await, each call's aggregated data
\* and result are made of its own plan and fetches only; a step of one call
\* leaves the local variables of the other call as they were; and no step
\* of a call writes the provider table or the pool's initialized flag.
C26_RequestsAreIsolated ==
  []OwnAggregatedData
  /\ [][ /\ UNCHANGED << providers, initialized >>
         /\ peer' # peer
              => /\ peer'.agg = agg /\ peer'.calls = calls /\ peer'.plan = plan
                 /\ agg' = peer.agg /\ calls' = peer.calls /\ plan' = peer.plan ]_vars

\* one call has returned its analysis of the price query while the other,
\* on the analysis query, is suspended in its web step with sources of its own
C26_Witness ==
  /\ pc = "done"
  /\ req.userQuery = q_Bitcoin_price
  /\ result.isAnalysis
  /\ Len(agg.sources) >= 2
  /\ peer.pc = "webQuery"
  /\ peer.req.userQuery = q_analyze_BTC
  /\ Len(peer.agg.sources) >= 2
  /\ peer.agg.sources # SubSeq(agg.sources, 1, Len(peer.agg.sources))

\* the planner has been handed the recent turns of the running call
PlannerHasRun ==
  pc \notin {"idle", "enter"} /\ calls.planner # "none"

RouteLastQuestionAnswered ==
  /\ pc = "done"
  /\ req.via = "route"
  /\ isLastQuestionQuery(req.userQuery)

\* C28: a last-question message posted to the route is answered without
\* planning, with the user message posted just before it (the stored message
\* that is the query itself is skipped), or with the 'No previous question'
\* text when it is the first user message of the chat
C28_RouteQuotesPrecedingMessage ==
  RouteLastQuestionAnswered =>
    /\ Len(UserTurns) >= 1
    /\ UserTurns[Len(UserTurns)].content = req.userQuery
    /\ calls.planner = "none"
    /\ ~result.isAnalysis
    /\ result.response =
         IF Len(UserTurns) >= 2
           THEN PreviousQuestion(UserTurns[Len(UserTurns) - 1].content)
           ELSE NoPreviousQuestion

C28_Witness ==
  /\ RouteLastQuestionAnswered
  /\ Len(chatMessages) = 3
  /\ chatMessages[1] = UserMessage(q_Bitcoin_price)
  /\ chatMessages[2].type = "ai"
  /\ chatMessages[3] = UserMessage(q_What_did_I_ask)
  /\ result.response = PreviousQuestion(q_Bitcoin_price)

\* C29: a tryFallbackData call made while initialized is false gets null
\* and no provider is asked, whatever the providers' own flags are; once
\* initialized is true no step, a further initialize() included, changes the
\* flag, the probes or the providers
C29_NullUntilInitialized ==
  [][ /\ (~initialized /\ calls' # calls) =>
           /\ calls'.providers = <<>>
           /\ agg'.fallbackTickers = NoData
           /\ agg'.sources = <<>>
      /\ initialized => UNCHANGED << initialized, probe, providers >> ]_vars

\* binance has answered its probe, coinbase has not settled yet, and a lookup
\* of a symbol binance maps came back empty-handed
C29_Witness ==
  /\ ~initialized
  /\ providers["binance"]
  /\ probe["binance"] = "settled" /\ probe["coinbase"] = "pending"
  /\ calls.fallback = <<BTCUSDT>>
  /\ calls.providers = <<>>
  /\ agg.fallbackTickers = NoData

\* C30: over any sequence of requests the stored facts only grow: only the
\* memory update of a request changes the chat's memory, what it adds is the
\* last twenty facts of one extracted list, as a set union, and a failed upsert
\* changes nothing; an update that succeeds replaces the tags by those of the
\* request's query and the summary by the new one, which is empty when the
\* summarization failed or there were no recent turns
C30_FactsGrowSummaryReplaced ==
  [][ /\ chatMemory.facts \subseteq chatMemory'.facts
      /\ chatMemory' # chatMemory => pc = "memory"
      /\ (pc = "memory" /\ pc' = "done") =>
           /\ Cardinality(chatMemory'.facts \ chatMemory.facts) <= FactSliceLimit
           /\ \E facts \in FactLists :
                chatMemory'.facts \in
                  { chatMemory.facts, chatMemory.facts \cup Range(Last(facts, FactSliceLimit)) }
           /\ calls'.upsertFailed => chatMemory' = chatMemory
           /\ ~calls'.upsertFailed =>
                /\ chatMemory'.tags = deriveTags(req.userQuery)
                /\ chatMemory'.summary =
                     IF Len(req.recent) = 0 \/ "summary" \in calls'.oracleFailures
                       THEN NoText ELSE trim(SummaryText)
                /\ (Len(req.recent) = 0 \/ "facts" \in calls'.oracleFailures)
                     => chatMemory'.facts = chatMemory.facts ]_vars

\* two facts and the last twenty of twenty-one were stored by earlier updates,
\* and the update of this request, whose summarization failed, has emptied
\* the summary and set the tags of its query
C30_Witness ==
  /\ pc = "done"
  /\ calls.memoryWrites = 1
  /\ ~calls.upsertFailed
  /\ "summary" \in calls.oracleFailures
  /\ chatMemory.summary = NoText
  /\ chatMemory.tags = deriveTags(q_analyze_BTC)
  /\ Cardinality(chatMemory.facts) = 22
  /\ "fact 01" \notin chatMemory.facts
  /\ "likes BTC" \in chatMemory.facts

=============================================================================
